---------------------------- MODULE Spec2Model ----------------------------
(***************************************************************************)
(* Model of the email SLA pipeline of CodexScriba/emailproject:            *)
(*   daily/scripts/ingest_and_update.py   (class IntelligentIngester)      *)
(*   daily/scripts/email_classifier.py    (class EmailClassifier)          *)
(*                                                                         *)
(* Representation.                                                         *)
(*  - A timestamp is a whole number of minutes since Monday 00:00 of the   *)
(*    first week; a calendar date is the day number ts \div 1440.  The     *)
(*    store keys its days by the ISO string of the date, whose string      *)
(*    order is the order of the day numbers.                               *)
(*  - A Python dict is a function whose domain is the set of its keys, so  *)
(*    a missing key and a key holding None are different things.           *)
(*  - None / JSON null is Null; a JSON boolean stored in a nullable field  *)
(*    is 1 or 0.  Decimal results are held in hundredths, so that          *)
(*    round(x, 1) and round(x, 2) are both exact integers.                 *)
(*  - metadata.last_updated (the wall clock) is left out of the store.     *)
(***************************************************************************)
EXTENDS Integers, Sequences, FiniteSets, TLC

VARIABLES
    cfg,        \* the SLA configuration read at construction
    prog,       \* which program owns this store: "II" or "EC"
    disk,       \* the store file: [kind, db]
    backups,    \* names (prefixes) of the backup files written so far
    ingest,     \* the two input files of the ingest folder: [events, unread]
    pc,         \* position of the current run
    mem,        \* the database the run holds in memory
    runs,       \* number of runs started
    hist,       \* what the last merges were given and returned
    csv,        \* classification of an events file: the rows of the file
    records,    \* classification of an events file: the records of both programs
    span,       \* measurement of a time span: its start, its end, an instant between
    minutes,    \* measurement of a time span: the business minutes computed
    dash,       \* daily dashboard: the day shown and what was computed from it
    week,       \* weekly dashboard: the days and reports read, what was computed
    orders,     \* merging two batches: the days maps of the three orders of merging
    backup_dir  \* the backup folder: "writable", or "full" (no room for a copy)

vars == <<cfg, prog, disk, backups, ingest, pc, mem, runs, hist, csv, records,
          span, minutes, dash, week, orders, backup_dir>>

---------------------------------------------------------------------------
(* Values *)

Null == -1

HoursPerDay == 24

MinutesPerDay == 1440

Hours == 0 .. (HoursPerDay - 1)

Max(a, b) == IF a >= b THEN a ELSE b

Min(a, b) == IF a <= b THEN a ELSE b

\* dict.get(k, default)
Get(d, k, default) == IF k \in DOMAIN d THEN d[k] ELSE default

\* dict.update(new): keys of new overwrite, the other keys stay
Update(d, new) ==
    [k \in (DOMAIN d) \cup (DOMAIN new) |-> IF k \in DOMAIN new THEN new[k] ELSE d[k]]

\* the value of a dict with one more key (d[k] = v)
SetKey(d, k, v) ==
    [j \in (DOMAIN d) \cup {k} |-> IF j = k THEN v ELSE d[j]]

SetMin(S) == CHOOSE x \in S : \A y \in S : x <= y

SetMax(S) == CHOOSE x \in S : \A y \in S : x >= y

RECURSIVE SeqSum(_)
SeqSum(s) == IF s = <<>> THEN 0 ELSE Head(s) + SeqSum(Tail(s))

\* Python's round(): num/den to the nearest integer, a half to the even side
RoundDiv(num, den) ==
    LET q == num \div den
        r == num % den
    IN  IF 2 * r > den THEN q + 1
        ELSE IF 2 * r < den THEN q
        ELSE IF q % 2 = 0 THEN q ELSE q + 1

\* round(num/den, 1) and round(num/den, 2), in hundredths
Round1(num, den) == 10 * RoundDiv(10 * num, den)

Round2(num, den) == RoundDiv(100 * num, den)

Round(num, den, ndigits) ==
    IF ndigits = 1 THEN Round1(num, den) ELSE Round2(num, den)

\* a stable sort of a sequence of <<key, item>> pairs by the integer key
RECURSIVE InsertPair(_, _)
InsertPair(x, s) ==
    IF s = <<>> THEN <<x>>
    ELSE IF x[1] < Head(s)[1] THEN <<x>> \o s
    ELSE <<Head(s)>> \o InsertPair(x, Tail(s))

RECURSIVE SortPairs(_)
SortPairs(s) ==
    IF s = <<>> THEN <<>>
    ELSE InsertPair(s[Len(s)], SortPairs(SubSeq(s, 1, Len(s) - 1)))

\* a stable sort of the rows s by the integer column k (0 where a row has
\* no such column)
SortByKey(s, k) ==
    LET pairs == [i \in 1 .. Len(s) |-> <<Get(s[i], k, 0), s[i]>>]
        sorted == SortPairs(pairs)
    IN  [i \in 1 .. Len(s) |-> sorted[i][2]]

\* mean and median of a non-empty sequence of integers, as num/den
MedianTwice(s) ==
    LET sorted == SortPairs([i \in 1 .. Len(s) |-> <<s[i], s[i]>>])
        t == [i \in 1 .. Len(s) |-> sorted[i][2]]
        n == Len(t)
    IN  IF n % 2 = 1 THEN 2 * t[(n + 1) \div 2] ELSE t[n \div 2] + t[n \div 2 + 1]

---------------------------------------------------------------------------
(* Configuration *)

DefaultCfg ==
    [start_hour |-> 7, end_hour |-> 21, business_days |-> 0 .. 6,
     unread_threshold |-> 30]

---------------------------------------------------------------------------
(* Calendar *)

DateOf(ts) == ts \div MinutesPerDay

HourOf(ts) == (ts % MinutesPerDay) \div 60

Weekday(day) == day % 7

\* a variant that counts each day's window from its opening, also on the
\* day the span starts
RECURSIVE LoopFromOpening(_, _, _, _)
LoopFromOpening(c, current_time, end_time, total) ==
    IF ~(current_time < end_time) THEN total
    ELSE LET midnight == DateOf(current_time) * MinutesPerDay
             day_start == midnight + c.start_hour * 60
             day_end == midnight + c.end_hour * 60
             period_end == Min(end_time, day_end)
             added == IF Weekday(DateOf(current_time)) \in c.business_days
                         /\ day_start < period_end
                      THEN period_end - day_start ELSE 0
         IN  LoopFromOpening(c, midnight + MinutesPerDay, end_time, total + added)

\* a variant that moves on by 24 hours without going back to midnight
RECURSIVE LoopByDayLength(_, _, _, _)
LoopByDayLength(c, current_time, end_time, total) ==
    IF ~(current_time < end_time) THEN total
    ELSE LET midnight == DateOf(current_time) * MinutesPerDay
             day_start == midnight + c.start_hour * 60
             day_end == midnight + c.end_hour * 60
             period_start == Max(current_time, day_start)
             period_end == Min(end_time, day_end)
             added == IF Weekday(DateOf(current_time)) \in c.business_days
                         /\ period_start < period_end
                      THEN period_end - period_start ELSE 0
         IN  LoopByDayLength(c, current_time + MinutesPerDay, end_time, total + added)

\* a variant that counts the window of every day, whatever its weekday
RECURSIVE LoopEveryDay(_, _, _, _)
LoopEveryDay(c, current_time, end_time, total) ==
    IF ~(current_time < end_time) THEN total
    ELSE LET midnight == DateOf(current_time) * MinutesPerDay
             day_start == midnight + c.start_hour * 60
             day_end == midnight + c.end_hour * 60
             period_start == Max(current_time, day_start)
             period_end == Min(end_time, day_end)
             added == IF period_start < period_end
                      THEN period_end - period_start ELSE 0
         IN  LoopEveryDay(c, midnight + MinutesPerDay, end_time, total + added)

\* the loop of calculate_business_minutes, from current_time on
RECURSIVE BusinessLoop(_, _, _, _)
BusinessLoop(c, current_time, end_time, total) ==
    IF ~(current_time < end_time) THEN total
    ELSE LET midnight == DateOf(current_time) * MinutesPerDay
             day_start == midnight + c.start_hour * 60
             day_end == midnight + c.end_hour * 60
             period_start == Max(current_time, day_start)
             period_end == Min(end_time, day_end)
             added == IF Weekday(DateOf(current_time)) \in c.business_days
                         /\ period_start < period_end
                      THEN period_end - period_start ELSE 0
         IN  BusinessLoop(c, midnight + MinutesPerDay, end_time, total + added)

\* a variant that compares the instants before it looks for a missing one
OrderCheckedFirst(c, start_time, end_time) ==
    IF end_time <= start_time THEN 0
    ELSE IF start_time = Null \/ end_time = Null THEN Null
    ELSE BusinessLoop(c, start_time, end_time, 0)

calculate_business_minutes(c, start_time, end_time) ==
    IF start_time = Null \/ end_time = Null THEN Null
    ELSE IF end_time <= start_time THEN 0
    ELSE BusinessLoop(c, start_time, end_time, 0)

---------------------------------------------------------------------------
(* Events, and the classification of every Inbox event.                     *)
(* An event row is [conv, type, ts, mid]: Conversation-Id, EventType,        *)
(* TimeStamp, MessageId.  An email record is                                 *)
(* [conversation_id, inbox_timestamp, inbox_message_id, status,              *)
(*  response_timestamp, response_message_id, response_time_minutes].         *)

\* df.sort_values(['Conversation-Id', 'TimeStamp']): a stable sort, the
\* conversation first and the timestamp second
SortEvents(rows) ==
    SortByKey(SortByKey(rows, "ts"), "conv")

\* drop_duplicates(subset=[Conversation-Id, TimeStamp, EventType, MessageId],
\* keep='first')
RECURSIVE DropDuplicates(_)
DropDuplicates(rows) ==
    IF rows = <<>> THEN <<>>
    ELSE LET init == DropDuplicates(SubSeq(rows, 1, Len(rows) - 1))
             last == rows[Len(rows)]
         IN  IF \E i \in 1 .. Len(init) : init[i] = last THEN init
             ELSE Append(init, last)

\* "no event": the None of response_event and match_event
NoEvent == [conv |-> Null, type |-> "None", ts |-> Null, mid |-> Null]

\* a variant that also takes an event at the Inbox's own timestamp
FirstNotEarlier(list, inbox_ts) ==
    LET found == SelectSeq(list, LAMBDA e : e.ts >= inbox_ts)
    IN  IF found = <<>> THEN NoEvent ELSE Head(found)

\* the first event of a list whose timestamp is later than the Inbox
\* timestamp (the for ... break loops of process_email_events), or NoEvent
RECURSIVE FirstLater(_, _)
FirstLater(list, inbox_ts) ==
    IF list = <<>> THEN NoEvent
    ELSE IF Head(list).ts > inbox_ts THEN Head(list)
    ELSE FirstLater(Tail(list), inbox_ts)

\* a variant that records no response time
RecordWithoutTime(c, inbox, status, response_event) ==
    [conversation_id |-> inbox.conv,
     inbox_timestamp |-> inbox.ts,
     inbox_message_id |-> inbox.mid,
     status |-> status,
     response_timestamp |-> IF response_event = NoEvent THEN Null ELSE response_event.ts,
     response_message_id |-> IF response_event = NoEvent THEN Null ELSE response_event.mid,
     response_time_minutes |-> Null]

EmailRecord(c, inbox, status, response_event) ==
    [conversation_id |-> inbox.conv,
     inbox_timestamp |-> inbox.ts,
     inbox_message_id |-> inbox.mid,
     status |-> status,
     response_timestamp |-> IF response_event = NoEvent THEN Null ELSE response_event.ts,
     response_message_id |-> IF response_event = NoEvent THEN Null ELSE response_event.mid,
     response_time_minutes |->
        IF response_event = NoEvent THEN Null
        ELSE calculate_business_minutes(c, inbox.ts, response_event.ts)]

\* IntelligentIngester: the record of one Inbox event, given the Replied and
\* the Completed events of its conversation
II_Classify(c, inbox, reply_events, completed_events) ==
    LET reply == FirstLater(reply_events, inbox.ts)
        completed == FirstLater(completed_events, inbox.ts)
    IN  IF reply # NoEvent THEN EmailRecord(c, inbox, "Replied", reply)
        ELSE IF completed # NoEvent THEN EmailRecord(c, inbox, "Completed", completed)
        ELSE EmailRecord(c, inbox, "Pending", NoEvent)

\* a variant that makes a record of the first Inbox event of a conversation
\* alone
FirstInboxOnly(c, rows) ==
    LET df == SortEvents(rows)
        OfConv(id, type) == SelectSeq(df, LAMBDA e : e.conv = id /\ e.type = type)
        inbox_events == SelectSeq(df, LAMBDA e : e.type = "Inbox")
        first == SelectSeq(inbox_events,
                           LAMBDA e : e = Head(OfConv(e.conv, "Inbox")))
    IN  [i \in 1 .. Len(first) |->
            II_Classify(c, first[i],
                        OfConv(first[i].conv, "Replied"),
                        OfConv(first[i].conv, "Completed"))]

\* IntelligentIngester.process_email_events on the rows of the events file
\* (no de-duplication): one record per Inbox event, by conversation
II_process_email_events(c, rows) ==
    LET df == SortEvents(rows)
        OfConv(id, type) == SelectSeq(df, LAMBDA e : e.conv = id /\ e.type = type)
        inbox_events == SelectSeq(df, LAMBDA e : e.type = "Inbox")
    IN  [i \in 1 .. Len(inbox_events) |->
            II_Classify(c, inbox_events[i],
                        OfConv(inbox_events[i].conv, "Replied"),
                        OfConv(inbox_events[i].conv, "Completed"))]

\* EmailClassifier.load_data: concatenate, de-duplicate, sort
EC_load_data(rows) == SortEvents(DropDuplicates(rows))

\* a variant that takes the earliest later resolving event, whatever its type
EarliestResolving(inbox_row, conversation_events) ==
    LET later_events ==
            SelectSeq(conversation_events,
                      LAMBDA e : e.ts > inbox_row.ts /\ e.type \in {"Replied", "Completed"})
    IN  IF later_events # <<>> THEN <<Head(later_events), Head(later_events).type>>
        ELSE <<NoEvent, "Pending">>

\* EmailClassifier.find_matching_event: <<event or NoEvent, status>>
EC_find_matching_event(inbox_row, conversation_events) ==
    LET later_events ==
            SelectSeq(conversation_events, LAMBDA e : e.ts > inbox_row.ts)
        replied_events == SelectSeq(later_events, LAMBDA e : e.type = "Replied")
        completed_events == SelectSeq(later_events, LAMBDA e : e.type = "Completed")
    IN  IF replied_events # <<>> THEN <<Head(replied_events), "Replied">>
        ELSE IF completed_events # <<>> THEN <<Head(completed_events), "Completed">>
        ELSE <<NoEvent, "Pending">>

\* EmailClassifier.process_conversations on the loaded frame
EC_process_conversations(c, df) ==
    LET inbox_emails == SelectSeq(df, LAMBDA e : e.type = "Inbox")
        ConvEvents(id) == SelectSeq(df, LAMBDA e : e.conv = id)
    IN  [i \in 1 .. Len(inbox_emails) |->
            LET m == EC_find_matching_event(inbox_emails[i],
                                            ConvEvents(inbox_emails[i].conv))
            IN  EmailRecord(c, inbox_emails[i], m[2], m[1])]

---------------------------------------------------------------------------
(* The store.                                                               *)
(* Database  = [metadata, days];  days maps a date to a DayRecord           *)
(* DayRecord = [date, has_email_data, has_sla_data, daily_summary,          *)
(*              hourly_data]; daily_summary and every entry of hourly_data  *)
(* are dicts.  An unread row is [date, hour, unread, title].                *)

EmptyDict == [k \in {} |-> Null]

\* the new database structure of load_existing_database
NewDatabase ==
    [metadata |-> [total_days_processed |-> 0, data_sources |-> {},
                   earliest_date |-> Null, latest_date |-> Null],
     days |-> EmptyDict]

\* the values of a column of some rows
Column(rows, k) == [i \in 1 .. Len(rows) |-> rows[i][k]]

\* the set of values of a column
ColumnSet(rows, k) == {rows[i][k] : i \in 1 .. Len(rows)}

\* the dates of a column of timestamps: .dt.date.unique()
DateSet(rows, k) == {DateOf(t) : t \in ColumnSet(rows, k)}

\* s.mean() / s.median() of the non-null values, rounded to ndigits places;
\* None if empty
NotNa(values) == SelectSeq(values, LAMBDA v : v # Null)

MeanOrNull(values, ndigits) ==
    IF values = <<>> THEN Null ELSE Round(SeqSum(values), Len(values), ndigits)

MedianOrNull(values, ndigits) ==
    IF values = <<>> THEN Null ELSE Round(MedianTwice(values), 2, ndigits)

---------------------------------------------------------------------------
(* IntelligentIngester.merge_with_existing *)

\* the day entry written for a date that is new to the store
II_NewDay(d, has_email, has_sla) ==
    [date |-> d, has_email_data |-> has_email, has_sla_data |-> has_sla,
     daily_summary |-> EmptyDict,
     hourly_data |-> [i \in 1 .. HoursPerDay |-> [hour |-> i - 1]]]

\* a variant that adds the new numbers to the ones the hour's entry holds
AddToHour(hourly_data, hour, new) ==
    LET found == {i \in 1 .. Len(hourly_data) :
                     Get(hourly_data[i], "hour", Null) = hour}
        old == hourly_data[SetMin(found)]
        sum == [k \in DOMAIN new |->
                   IF new[k] # Null /\ Get(old, k, Null) # Null
                   THEN old[k] + new[k] ELSE new[k]]
    IN  IF found = {} THEN Append(hourly_data, Update([hour |-> hour], new))
        ELSE [hourly_data EXCEPT ![SetMin(found)] = Update(@, sum)]

\* "find or create hour entry", then hour_entry.update(new)
II_UpdateHour(hourly_data, hour, new) ==
    LET found == {i \in 1 .. Len(hourly_data) :
                     Get(hourly_data[i], "hour", Null) = hour}
    IN  IF found = {} THEN Append(hourly_data, Update([hour |-> hour], new))
        ELSE [hourly_data EXCEPT ![SetMin(found)] = Update(@, new)]

\* the daily summary of one date's email records
II_EmailSummary(day_emails) ==
    LET total_emails == Len(day_emails)
        replied == Len(SelectSeq(day_emails, LAMBDA r : r.status = "Replied"))
        completed == Len(SelectSeq(day_emails, LAMBDA r : r.status = "Completed"))
        response_times == NotNa(Column(day_emails, "response_time_minutes"))
    IN  [total_emails |-> total_emails,
         replied_count |-> replied,
         completed_count |-> completed,
         pending_count |-> total_emails - replied - completed,
         reply_rate_percent |->
            IF total_emails > 0 THEN Round1(100 * replied, total_emails) ELSE 0,
         avg_response_time_minutes |-> MeanOrNull(response_times, 1),
         median_response_time_minutes |-> MedianOrNull(response_times, 1)]

\* the hourly update of one hour from one date's email records
II_EmailHour(day_emails, hour) ==
    LET hour_emails ==
            SelectSeq(day_emails, LAMBDA r : HourOf(r.inbox_timestamp) = hour)
        hour_replied == SelectSeq(hour_emails, LAMBDA r : r.status = "Replied")
        hour_response_times ==
            NotNa(Column(hour_emails, "response_time_minutes"))
    IN  [emails_received |-> Len(hour_emails),
         emails_replied |-> Len(hour_replied),
         avg_response_time |-> MeanOrNull(hour_response_times, 1)]

\* for hour in range(24): update the hour's entry
RECURSIVE II_EmailHours(_, _, _)
II_EmailHours(hourly_data, day_emails, hour) ==
    IF hour >= HoursPerDay THEN hourly_data
    ELSE II_EmailHours(II_UpdateHour(hourly_data, hour, II_EmailHour(day_emails, hour)),
                       day_emails, hour + 1)

\* one date of "Process email data by date"
II_MergeEmailDay(days, d, day_emails) ==
    LET day0 == IF d \notin DOMAIN days THEN II_NewDay(d, TRUE, FALSE)
                ELSE [days[d] EXCEPT !.has_email_data = TRUE]
        day1 == [day0 EXCEPT
                    !.daily_summary = Update(@, II_EmailSummary(day_emails)),
                    !.hourly_data = II_EmailHours(@, day_emails, 0)]
    IN  SetKey(days, d, day1)

RECURSIVE II_MergeEmail(_, _, _)
II_MergeEmail(days, email_df, dates) ==
    IF dates = {} THEN days
    ELSE LET d == SetMin(dates)
             day_emails == SelectSeq(email_df, LAMBDA r : DateOf(r.inbox_timestamp) = d)
         IN  II_MergeEmail(II_MergeEmailDay(days, d, day_emails), email_df, dates \ {d})

\* IntelligentIngester.process_sla_data: the SLA_Met column from the threshold
II_process_sla_data(c, rows) ==
    [i \in 1 .. Len(rows) |->
        [date |-> rows[i].date, hour |-> rows[i].hour, unread |-> rows[i].unread,
         sla_met |-> IF rows[i].unread <= c.unread_threshold THEN 1 ELSE 0]]

\* for _, row in day_sla.iterrows(): update the row's hour entry
RECURSIVE II_SlaRows(_, _)
II_SlaRows(hourly_data, day_sla) ==
    IF day_sla = <<>> THEN hourly_data
    ELSE II_SlaRows(II_UpdateHour(hourly_data, Head(day_sla).hour,
                                  [unread_count |-> Head(day_sla).unread,
                                   sla_met |-> Head(day_sla).sla_met]),
                    Tail(day_sla))

\* a variant that replaces the day by a new one holding the readings alone
ReplaceBySlaDay(c, days, d, day_sla) ==
    SetKey(days, d, [II_NewDay(d, FALSE, TRUE) EXCEPT
                        !.hourly_data = II_SlaRows(@, day_sla)])

\* one date of "Process SLA data"
II_MergeSlaDay(c, days, d, day_sla) ==
    LET day0 == IF d \notin DOMAIN days THEN II_NewDay(d, FALSE, TRUE)
                ELSE [days[d] EXCEPT !.has_sla_data = TRUE]
        business_hours_sla ==
            SelectSeq(day_sla, LAMBDA r : r.hour >= c.start_hour /\ r.hour < c.end_hour)
        n == Len(business_hours_sla)
        summary ==
            IF n = 0 THEN day0.daily_summary
            ELSE Update(day0.daily_summary,
                   [sla_compliance_rate |->
                        Round1(100 * SeqSum(Column(business_hours_sla, "sla_met")), n),
                    avg_unread_count |->
                        Round1(SeqSum(Column(business_hours_sla, "unread")), n)])
        day1 == [day0 EXCEPT !.daily_summary = summary,
                             !.hourly_data = II_SlaRows(@, day_sla)]
    IN  SetKey(days, d, day1)

RECURSIVE II_MergeSla(_, _, _, _)
II_MergeSla(c, days, sla_df, dates) ==
    IF dates = {} THEN days
    ELSE LET d == SetMin(dates)
             day_sla == SelectSeq(sla_df, LAMBDA r : r.date = d)
         IN  II_MergeSla(c, II_MergeSlaDay(c, days, d, day_sla), sla_df, dates \ {d})

\* "Sort hourly data": sorted(hourly_data, key=lambda x: x.get('hour', 0))
II_SortHourly(days) ==
    [d \in DOMAIN days |->
        [days[d] EXCEPT !.hourly_data = SortByKey(@, "hour")]]

\* the data_sources merge_with_existing records
II_DataSources == {"Complete_List_Raw.csv", "UnreadCount.csv"}

\* "Update metadata": only when the store has a day
II_Metadata(metadata, days) ==
    LET all_dates == DOMAIN days
        dated == IF all_dates # {}
                 THEN [metadata EXCEPT !.earliest_date = SetMin(all_dates),
                                       !.latest_date = SetMax(all_dates),
                                       !.total_days_processed = Cardinality(all_dates)]
                 ELSE metadata
    IN  [dated EXCEPT !.data_sources = II_DataSources]

\* merge_with_existing(existing_db, email_df, sla_df); a frame that is None
\* (its file is absent) or empty is the empty sequence
II_merge_with_existing(c, existing_db, email_df, sla_df) ==
    LET days1 == II_MergeEmail(existing_db.days, email_df,
                               DateSet(email_df, "inbox_timestamp"))
        days2 == II_MergeSla(c, days1, sla_df, ColumnSet(sla_df, "date"))
        days3 == II_SortHourly(days2)
    IN  [metadata |-> II_Metadata(existing_db.metadata, days3), days |-> days3]

---------------------------------------------------------------------------
(* EmailClassifier.save_to_unified_json *)

\* EmailClassifier.load_sla_data: the SLA_Met column from the Title column,
\* sorted by date and hour
EC_load_sla_data(rows) ==
    LET df == [i \in 1 .. Len(rows) |->
                [date |-> rows[i].date, hour |-> rows[i].hour,
                 unread |-> rows[i].unread,
                 sla_met |-> IF rows[i].title = "SLA MET" THEN 1 ELSE 0]]
    IN  SortByKey(SortByKey(df, "hour"), "date")

\* the rows calculate_daily_sla_rates keeps: business hours (both ends
\* included) and business weekdays
EC_BusinessRows(c, sla_df) ==
    SelectSeq(sla_df, LAMBDA r : /\ r.hour >= c.start_hour
                                 /\ r.hour <= c.end_hour
                                 /\ Weekday(r.date) \in c.business_days)

\* EmailClassifier.calculate_daily_sla_rates: date -> the day's two rates
\* (the empty function stands for None and for an empty frame)
EC_calculate_daily_sla_rates(c, sla_df) ==
    LET df == EC_BusinessRows(c, sla_df)
    IN  [d \in ColumnSet(df, "date") |->
            LET rows == SelectSeq(df, LAMBDA r : r.date = d)
            IN  [SLA_Compliance_Rate |->
                    Round2(100 * SeqSum(Column(rows, "sla_met")), Len(rows)),
                 Avg_Unread_Count |->
                    Round2(SeqSum(Column(rows, "unread")), Len(rows))]]

\* EmailClassifier.process_sla_hourly_data: hour -> {unread_count, sla_met}
\* of the date's rows, a later row of the same hour replacing an earlier one
EC_process_sla_hourly_data(sla_df, d) ==
    LET df_day == SelectSeq(sla_df, LAMBDA r : r.date = d)
    IN  [h \in ColumnSet(df_day, "hour") |->
            LET last == SetMax({i \in 1 .. Len(df_day) : df_day[i].hour = h})
            IN  [unread_count |-> df_day[last].unread, sla_met |-> df_day[last].sla_met]]

\* the null-filled hourly slot of ensure_day
EC_EmptyHour(h) ==
    [hour |-> h, unread_count |-> Null, sla_met |-> Null,
     emails_received |-> 0, emails_replied |-> 0, avg_response_time |-> Null]

EC_NewDay(d) ==
    [date |-> d, has_sla_data |-> FALSE, has_email_data |-> FALSE,
     daily_summary |->
        [sla_compliance_rate |-> Null, avg_unread_count |-> Null,
         total_emails |-> Null, reply_rate_percent |-> Null,
         avg_response_time_minutes |-> Null, median_response_time_minutes |-> Null],
     hourly_data |-> [i \in 1 .. HoursPerDay |-> EC_EmptyHour(i - 1)]]

\* "normalize to 24 hours": existing = {e.get("hour", i): e}, a later entry
\* of the same key replacing an earlier one
EC_Normalize(hourly_data) ==
    LET KeyOf(i) == Get(hourly_data[i], "hour", i - 1)
        existing(h) == {i \in 1 .. Len(hourly_data) : KeyOf(i) = h}
    IN  [i \in 1 .. HoursPerDay |->
            IF existing(i - 1) = {} THEN EC_EmptyHour(i - 1)
            ELSE hourly_data[SetMax(existing(i - 1))]]

\* ensure_day(date_str): the days map with the date present and normalized
ensure_day(days, d) ==
    LET days1 == IF d \notin DOMAIN days THEN SetKey(days, d, EC_NewDay(d)) ELSE days
    IN  IF Len(days1[d].hourly_data) # HoursPerDay
        THEN [days1 EXCEPT ![d].hourly_data = EC_Normalize(@)]
        ELSE days1

\* "Merge SLA days": one row of daily_sla_rates
EC_MergeSlaDay(days, d, drow, hourly_sla) ==
    LET days1 == ensure_day(days, d)
        day == days1[d]
        summary == SetKey(SetKey(day.daily_summary,
                                 "sla_compliance_rate", drow.SLA_Compliance_Rate),
                          "avg_unread_count", drow.Avg_Unread_Count)
        hourly == [i \in 1 .. HoursPerDay |->
                    LET s == Get(hourly_sla, i - 1, EmptyDict)
                    IN  SetKey(SetKey(day.hourly_data[i],
                                      "unread_count", Get(s, "unread_count", Null)),
                               "sla_met", Get(s, "sla_met", Null))]
    IN  [days1 EXCEPT ![d] = [day EXCEPT !.has_sla_data = TRUE,
                                         !.daily_summary = summary,
                                         !.hourly_data = hourly]]

RECURSIVE EC_MergeSla(_, _, _, _)
EC_MergeSla(days, daily_sla_rates, sla_df, dates) ==
    IF dates = {} THEN days
    ELSE LET d == SetMin(dates)
         IN  EC_MergeSla(EC_MergeSlaDay(days, d, daily_sla_rates[d],
                                        EC_process_sla_hourly_data(sla_df, d)),
                         daily_sla_rates, sla_df, dates \ {d})

\* generate_summary_stats_for_date, the four keys the store takes
EC_EmailSummary(df_day) ==
    LET total == Len(df_day)
        replied == Len(SelectSeq(df_day, LAMBDA r : r.status = "Replied"))
        responded == SelectSeq(df_day, LAMBDA r : r.status # "Pending")
        rts == NotNa(Column(responded, "response_time_minutes"))
    IN  [total_emails |-> total,
         reply_rate_percent |-> IF total > 0 THEN Round2(100 * replied, total) ELSE 0,
         avg_response_time_minutes |-> MeanOrNull(rts, 2),
         median_response_time_minutes |-> MedianOrNull(rts, 2)]

\* analyze_hourly_distribution_for_date: the Inbox events of the loaded
\* frame on the date, counted by hour
EC_HourCount(df, d, h) ==
    Len(SelectSeq(df, LAMBDA e : e.type = "Inbox" /\ DateOf(e.ts) = d /\ HourOf(e.ts) = h))

\* analyze_response_time_by_hour_for_date: count and mean of the date's
\* resolved records by Inbox hour (the mean is a float; it is held to the
\* hundredth here)
EC_HourResponse(results_df, d, h) ==
    LET df == SelectSeq(results_df,
                 LAMBDA r : /\ r.status # "Pending"
                            /\ r.response_time_minutes # Null
                            /\ DateOf(r.inbox_timestamp) = d
                            /\ HourOf(r.inbox_timestamp) = h)
    IN  [count |-> Len(df),
         avg |-> MeanOrNull(Column(df, "response_time_minutes"), 2)]

\* "Merge Email days": one date
EC_MergeEmailDay(days, d, df, results_df) ==
    LET days1 == ensure_day(days, d)
        day == days1[d]
        df_day == SelectSeq(results_df, LAMBDA r : DateOf(r.inbox_timestamp) = d)
        hourly == [i \in 1 .. HoursPerDay |->
                    LET rinfo == EC_HourResponse(results_df, d, i - 1)
                    IN  Update(day.hourly_data[i],
                               [emails_received |-> EC_HourCount(df, d, i - 1),
                                emails_replied |-> rinfo.count,
                                avg_response_time |-> rinfo.avg])]
    IN  [days1 EXCEPT ![d] = [day EXCEPT
                                !.has_email_data = TRUE,
                                !.daily_summary = Update(@, EC_EmailSummary(df_day)),
                                !.hourly_data = hourly]]

RECURSIVE EC_MergeEmail(_, _, _, _)
EC_MergeEmail(days, df, results_df, dates) ==
    IF dates = {} THEN days
    ELSE LET d == SetMin(dates)
         IN  EC_MergeEmail(EC_MergeEmailDay(days, d, df, results_df),
                           df, results_df, dates \ {d})

\* "Sources": UnreadCount.csv when the SLA frame is loaded, and the names of
\* the event files load_data loaded
EC_NewSources(sla_loaded, loaded_event_files) ==
    (IF sla_loaded THEN {"UnreadCount.csv"} ELSE {}) \cup loaded_event_files

\* the database save_to_unified_json writes, from the existing one (the
\* empty dict when the file is absent or cannot be parsed)
EC_Merged(existing_db, new_sources, df, results_df, sla_df, daily_sla_rates) ==
    LET days0 == Get(existing_db, "days", EmptyDict)
        metadata == Get(existing_db, "metadata", EmptyDict)
        data_sources == Get(metadata, "data_sources", {}) \cup new_sources
        days1 == EC_MergeSla(days0, daily_sla_rates, sla_df, DOMAIN daily_sla_rates)
        days2 == EC_MergeEmail(days1, df, results_df,
                               DateSet(results_df, "inbox_timestamp"))
        all_dates == DOMAIN days2
    IN  [metadata |->
            [total_days_processed |-> Cardinality(all_dates),
             data_sources |-> data_sources,
             earliest_date |-> IF all_dates # {} THEN SetMin(all_dates) ELSE Null,
             latest_date |-> IF all_dates # {} THEN SetMax(all_dates) ELSE Null],
         days |-> days2]

---------------------------------------------------------------------------
(* DashboardGenerator (daily/scripts/generate_dashboard.py): what the daily  *)
(* dashboard computes from the hourly_data of one stored day.  Response      *)
(* times are in hundredths of a minute, as the store holds them.             *)

\* "x or 0"
OrZero(v) == IF v = Null THEN 0 ELSE v

\* the configured business hours, clamped to 0..23
get_business_hour_bounds(c) ==
    [start_hour |-> Max(0, Min(23, c.start_hour)),
     end_hour |-> Max(0, Min(23, c.end_hour))]

\* the entries of the business hours, the end hour included
extract_business_hours_data(c, hourly_data) ==
    LET b == get_business_hour_bounds(c)
        inside == SelectSeq(hourly_data,
                     LAMBDA h : b.start_hour <= h.hour /\ h.hour <= b.end_hour)
    IN  [i \in 1 .. Len(inside) |->
            [hour |-> inside[i].hour,
             emails |-> OrZero(Get(inside[i], "emails_received", 0)),
             unread |-> Get(inside[i], "unread_count", Null),
             sla_met |-> Get(inside[i], "sla_met", 0),
             avg_response_time |-> Get(inside[i], "avg_response_time", Null),
             emails_replied |-> OrZero(Get(inside[i], "emails_replied", 0))]]

\* replied_count = hour_data.get('emails_replied', 0) or 0
Replies(h) == OrZero(Get(h, "emails_replied", 0))

\* the entries that pass "response_time is not None and replied_count > 0"
WithResponse(hours) ==
    SelectSeq(hours, LAMBDA h : Get(h, "avg_response_time", Null) # Null /\ Replies(h) > 0)

\* the sum of response_time * replied_count, and of replied_count, over
\* those entries
WeightedSum(hours) ==
    LET w == WithResponse(hours)
    IN  SeqSum([i \in 1 .. Len(w) |-> w[i].avg_response_time * Replies(w[i])])

TotalWeight(hours) ==
    LET w == WithResponse(hours)
    IN  SeqSum([i \in 1 .. Len(w) |-> Replies(w[i])])

\* the colour of num/den hundredths of a minute against 60 and 120 minutes
ColorOf(num, den) ==
    IF num <= 6000 * den THEN "success"
    ELSE IF num <= 12000 * den THEN "warning"
    ELSE "danger"

Periods ==
    << [period |-> "Early Morning (6-9 AM)", hours |-> {6, 7, 8}],
       [period |-> "Morning (9 AM-1 PM)", hours |-> {9, 10, 11, 12}],
       [period |-> "Afternoon (1-5 PM)", hours |-> {13, 14, 15, 16}],
       [period |-> "Evening (5-9 PM)", hours |-> {17, 18, 19, 20, 21}] >>

calculate_response_time_by_hour(hourly_data) ==
    [i \in 1 .. Len(Periods) |->
        LET in_period == SelectSeq(hourly_data, LAMBDA h : h.hour \in Periods[i].hours)
            total_time == WeightedSum(in_period)
            count == TotalWeight(in_period)
        IN  [period |-> Periods[i].period,
             avg_response_time |-> IF count > 0 THEN Round1(total_time, 100 * count) ELSE 0,
             color |-> IF count > 0 THEN ColorOf(total_time, count) ELSE "muted"]]

\* every hour's average response time, once for each of its replies
RECURSIVE Expand(_)
Expand(hours) ==
    IF hours = <<>> THEN <<>>
    ELSE [i \in 1 .. Replies(Head(hours)) |-> Head(hours).avg_response_time]
            \o Expand(Tail(hours))

\* list.sort()
Sorted(s) ==
    LET sorted == SortPairs([i \in 1 .. Len(s) |-> <<s[i], s[i]>>])
    IN  [i \in 1 .. Len(s) |-> sorted[i][2]]

\* the percentile p of a sorted list, as num/den: the median for p = 50,
\* else statistics.quantiles(arr, n=100, method='inclusive')[p - 1], which
\* needs two values; the only value of a list of one
get_percentile(arr, p) ==
    IF p = 50 THEN [num |-> MedianTwice(arr), den |-> 2]
    ELSE IF Len(arr) >= 2
    THEN LET m == Len(arr) - 1
             j == (p * m) \div 100
             delta == (p * m) % 100
         IN  [num |-> arr[j + 1] * (100 - delta) + arr[j + 2] * delta, den |-> 100]
    ELSE [num |-> arr[1], den |-> 1]

PercentileLabels ==
    << [label |-> "P25", percentage |-> 25], [label |-> "P50", percentage |-> 50],
       [label |-> "P75", percentage |-> 75], [label |-> "P90", percentage |-> 90],
       [label |-> "P95", percentage |-> 95] >>

\* the response-time target when the configuration names none, in minutes
ResponseTimeTarget == 60

calculate_response_time_percentiles(hourly_data) ==
    LET response_times == Expand(WithResponse(hourly_data))
    IN  IF response_times = <<>>
        THEN [percentiles |->
                 [i \in 1 .. Len(PercentileLabels) |->
                     [label |-> PercentileLabels[i].label, value |-> 0,
                      percentage |-> PercentileLabels[i].percentage,
                      color |-> "muted", bar_width |-> 0]],
              quartiles |-> [q1_count |-> 0, q2_count |-> 0, q3_count |-> 0, q4_count |-> 0],
              has_data |-> FALSE,
              sla_target |-> ResponseTimeTarget]
        ELSE LET arr == Sorted(response_times)
                 value == [i \in 1 .. Len(PercentileLabels) |->
                              get_percentile(arr, PercentileLabels[i].percentage)]
                 rounded == [i \in 1 .. Len(PercentileLabels) |->
                                Round1(value[i].num, 100 * value[i].den)]
                 max_p_value == rounded[Len(PercentileLabels)]
                 within(lo, hi) ==
                     Len(SelectSeq(arr, LAMBDA rt : lo < rt /\ rt <= hi))
             IN  [percentiles |->
                     [i \in 1 .. Len(PercentileLabels) |->
                         [label |-> PercentileLabels[i].label, value |-> rounded[i],
                          percentage |-> PercentileLabels[i].percentage,
                          color |-> ColorOf(value[i].num, value[i].den),
                          bar_width |-> IF max_p_value > 0
                                        THEN RoundDiv(100 * rounded[i], max_p_value)
                                        ELSE 0]],
                  quartiles |->
                     [q1_count |-> Len(SelectSeq(arr, LAMBDA rt : rt <= rounded[1])),
                      q2_count |-> within(rounded[1], rounded[2]),
                      q3_count |-> within(rounded[2], rounded[3]),
                      q4_count |-> Len(SelectSeq(arr, LAMBDA rt : rt > rounded[3]))],
                  has_data |-> TRUE,
                  sla_target |-> ResponseTimeTarget]

\* the hours a block that starts at start takes its entries from
IntervalHours(start) == {start, start + 1}

\* a variant: any(sla_vals)
AnyMet(sla_vals) == IF \E i \in 1 .. Len(sla_vals) : sla_vals[i] = 1 THEN 1 ELSE 0

\* all(sla_vals)
AllMet(sla_vals) == IF \A i \in 1 .. Len(sla_vals) : sla_vals[i] = 1 THEN 1 ELSE 0

\* one block of aggregate_two_hour_intervals
TwoHourInterval(b, hourly_data, start) ==
    LET end == Min(start + 2, b.end_hour)
        hours == SelectSeq(hourly_data,
                    LAMBDA h : Get(h, "hour", Null) \in IntervalHours(start))
        emails_sum == SeqSum([i \in 1 .. Len(hours) |->
                                 OrZero(Get(hours[i], "emails_received", Null))])
        unread_vals == NotNa([i \in 1 .. Len(hours) |-> Get(hours[i], "unread_count", Null)])
        sla_vals == NotNa([i \in 1 .. Len(hours) |-> Get(hours[i], "sla_met", Null)])
        total_weight == TotalWeight(hours)
        rt_samples == Expand(WithResponse(hours))
        avg_rt == IF total_weight > 0
                  THEN Round1(WeightedSum(hours), 100 * total_weight) ELSE Null
    IN  [start_hour |-> start,
         end_hour |-> end,
         emails |-> emails_sum,
         avg_unread |-> MeanOrNull(unread_vals, 1),
         sla_met |-> IF sla_vals = <<>> THEN Null ELSE AllMet(sla_vals),
         avg_response_time |-> avg_rt,
         avg_mean_time |-> avg_rt,
         median_response_time |->
            IF rt_samples = <<>> THEN Null ELSE Round1(MedianTwice(rt_samples), 200)]

\* for start in range(start_hour, end_hour, 2)
aggregate_two_hour_intervals(c, hourly_data) ==
    LET b == get_business_hour_bounds(c)
        n == IF b.end_hour > b.start_hour
             THEN (b.end_hour - b.start_hour + 1) \div 2 ELSE 0
    IN  [k \in 1 .. n |-> TwoHourInterval(b, hourly_data, b.start_hour + 2 * (k - 1))]

\* generate_dashboard: the response-time part of the template context
DashboardContext(c, day_data, response_time_by_hour, percentiles_data, two_hour_metrics) ==
    LET business_data == extract_business_hours_data(c, day_data.hourly_data)
        quartiles_raw == percentiles_data.quartiles
        total_emails == quartiles_raw.q1_count + quartiles_raw.q2_count
                           + quartiles_raw.q3_count + quartiles_raw.q4_count
        counts == <<quartiles_raw.q1_count, quartiles_raw.q2_count,
                    quartiles_raw.q3_count, quartiles_raw.q4_count>>
        total_weight == TotalWeight(business_data)
        computed_avg_rt == IF total_weight > 0
                           THEN Round1(WeightedSum(business_data), 100 * total_weight)
                           ELSE Null
        p50 == SelectSeq(percentiles_data.percentiles, LAMBDA p : p.label = "P50")
    IN  [response_time_by_hour |-> response_time_by_hour,
         response_time_percentiles |-> percentiles_data.percentiles,
         quartile_counts |->
            IF total_emails > 0
            THEN [i \in 1 .. 4 |->
                    [count |-> counts[i],
                     percentage |-> RoundDiv(100 * counts[i], total_emails)]]
            ELSE <<>>,
         two_hour_metrics |-> two_hour_metrics,
         two_hour_max_emails |->
            IF two_hour_metrics # <<>>
            THEN SetMax({two_hour_metrics[i].emails : i \in 1 .. Len(two_hour_metrics)})
            ELSE 1,
         avg_response_time |->
            IF computed_avg_rt # Null THEN computed_avg_rt
            ELSE OrZero(Get(day_data.daily_summary, "avg_response_time_minutes", Null)),
         median_response_time |-> IF p50 # <<>> THEN p50[1].value ELSE 0]

---------------------------------------------------------------------------
(* weekly/scripts/generate_weekly_dashboard.py: what the weekly dashboard    *)
(* computes from the stored days of a range of dates.  A rendered daily      *)
(* report is the dict of the figures of its KPI cards, as shown: the total   *)
(* as an integer, the others with one decimal, held in tenths.               *)

\* isinstance(v, (int, float)) for a value that is a number or None
IsNumber(v) == v # Null

\* float(text) of a figure shown with one decimal, in hundredths
ParseTenths(shown) == 10 * shown

\* the day object a rendered daily report is turned into
FallbackDay(report) ==
    LET te == IF "Total Emails" \in DOMAIN report
              THEN [total_emails |-> report["Total Emails"]] ELSE EmptyDict
        au == IF "Avg Unread Count" \in DOMAIN report
              THEN [avg_unread_count |-> ParseTenths(report["Avg Unread Count"])]
              ELSE EmptyDict
        art == IF "Avg Response Time" \in DOMAIN report
               THEN [avg_response_time_minutes |-> ParseTenths(report["Avg Response Time"])]
               ELSE EmptyDict
        sla == IF "SLA Compliance" \in DOMAIN report
               THEN [sla_compliance_rate |-> ParseTenths(report["SLA Compliance"])]
               ELSE EmptyDict
    IN  [has_email_data |-> TRUE, has_sla_data |-> TRUE,
         daily_summary |-> Update(Update(Update(te, au), art), sla),
         hourly_data |-> <<>>]

\* day_obj.get(flag) is False
FlagIsFalse(day_obj, flag) == flag \in DOMAIN day_obj /\ day_obj[flag] = FALSE

\* the day object of a date: the stored day, or, when that is missing or one
\* of its flags is false and the date has a rendered daily report with KPI
\* cards, the day made from the report; an empty dict where there is none
WeekDayObject(days_data, html, d) ==
    LET day_obj == IF d \in DOMAIN days_data THEN days_data[d] ELSE EmptyDict
    IN  IF /\ \/ day_obj = EmptyDict
              \/ FlagIsFalse(day_obj, "has_email_data")
              \/ FlagIsFalse(day_obj, "has_sla_data")
           /\ d \in DOMAIN html
           /\ html[d] # EmptyDict
        THEN FallbackDay(html[d])
        ELSE day_obj

include_day_for_averages(day_obj) ==
    /\ ~FlagIsFalse(day_obj, "has_email_data")
    /\ ~FlagIsFalse(day_obj, "has_sla_data")

\* h.get('emails_received') or h.get('emails') or 0
HourEmails(h) ==
    LET v == Get(h, "emails_received", Null)
    IN  IF v # Null /\ v # 0 THEN v
        ELSE LET e == Get(h, "emails", Null)
             IN  IF e # Null /\ e # 0 THEN e ELSE 0

\* what a day adds to total_emails: its daily total, else its hourly sum
DayTotalEmails(day_obj) ==
    LET daily_summary == Get(day_obj, "daily_summary", EmptyDict)
        hourly_data == Get(day_obj, "hourly_data", <<>>)
        day_total == Get(daily_summary, "total_emails", Null)
    IN  IF IsNumber(day_total) THEN day_total
        ELSE SeqSum([i \in 1 .. Len(hourly_data) |-> HourEmails(hourly_data[i])])

\* the weight of a day's SLA rate: its total_emails where it has a rate
DaySlaWeight(day_obj) ==
    LET daily_summary == Get(day_obj, "daily_summary", EmptyDict)
    IN  IF IsNumber(Get(daily_summary, "sla_compliance_rate", Null))
        THEN OrZero(Get(daily_summary, "total_emails", Null))
        ELSE 0

\* a or b, for numbers and None
Either(a, b) == IF a # Null /\ a # 0 THEN a ELSE b

\* the hours of a day that count for the weekly response time: inside the
\* business hours, with replies and an average
WeekResponseHours(c, day_obj) ==
    SelectSeq(Get(day_obj, "hourly_data", <<>>),
              LAMBDA h :
                /\ Get(h, "hour", Null) >= c.start_hour
                /\ Get(h, "hour", Null) < c.end_hour
                /\ IsNumber(Either(Get(h, "emails_replied", Null), Get(h, "replies", Null)))
                /\ Either(Get(h, "emails_replied", Null), Get(h, "replies", Null)) > 0
                /\ IsNumber(Either(Get(h, "avg_response_time_minutes", Null),
                                   Get(h, "avg_response_time", Null))))

\* the sum of the values of a key of the daily summaries that hold a number,
\* and how many hold one
SummarySum(objs, key) ==
    SeqSum([i \in 1 .. Len(objs) |->
               OrZero(Get(Get(objs[i], "daily_summary", EmptyDict), key, Null))])

SummaryCount(objs, key) ==
    Len(SelectSeq(objs, LAMBDA o : IsNumber(Get(Get(o, "daily_summary", EmptyDict), key, Null))))

\* the fixed targets of the KPI cards, in minutes and in percent
WeekResponseTarget == 60

WeekSlaTarget == 85

compute_weekly_kpis(days_data, c, dates, html) ==
    LET \* the day objects of the dates that have one
        objs == SelectSeq([i \in 1 .. Len(dates) |-> WeekDayObject(days_data, html, dates[i])],
                          LAMBDA o : o # EmptyDict)
        business == SelectSeq(
                        [i \in 1 .. Len(dates) |->
                            IF Weekday(dates[i]) \in c.business_days
                            THEN WeekDayObject(days_data, html, dates[i]) ELSE EmptyDict],
                        LAMBDA o : o # EmptyDict)
        total_emails == SeqSum([i \in 1 .. Len(objs) |-> DayTotalEmails(objs[i])])
        total_emails_weight_for_sla == SeqSum([i \in 1 .. Len(objs) |-> DaySlaWeight(objs[i])])
        weighted_sla_sum ==
            SeqSum([i \in 1 .. Len(objs) |->
                       IF DaySlaWeight(objs[i]) > 0
                       THEN objs[i].daily_summary.sla_compliance_rate * DaySlaWeight(objs[i])
                       ELSE 0])
        rt_hours == [i \in 1 .. Len(business) |-> WeekResponseHours(c, business[i])]
        weighted_rt_numerator ==
            SeqSum([i \in 1 .. Len(business) |->
                       SeqSum([j \in 1 .. Len(rt_hours[i]) |->
                                  Either(Get(rt_hours[i][j], "avg_response_time_minutes", Null),
                                         Get(rt_hours[i][j], "avg_response_time", Null))
                                    * Either(Get(rt_hours[i][j], "emails_replied", Null),
                                             Get(rt_hours[i][j], "replies", Null))])])
        weighted_rt_denominator ==
            SeqSum([i \in 1 .. Len(business) |->
                       SeqSum([j \in 1 .. Len(rt_hours[i]) |->
                                  Either(Get(rt_hours[i][j], "emails_replied", Null),
                                         Get(rt_hours[i][j], "replies", Null))])])
        used_days_count == Len(SelectSeq(objs, LAMBDA o : include_day_for_averages(o)))
        \* the unweighted fallback reads the stored days alone
        stored == SelectSeq([i \in 1 .. Len(dates) |->
                                IF dates[i] \in DOMAIN days_data
                                THEN days_data[dates[i]] ELSE EmptyDict],
                            LAMBDA o : o # EmptyDict)
    IN  [total_emails |-> total_emails,
         avg_emails_per_day |->
            IF used_days_count > 0 THEN Round1(total_emails, used_days_count) ELSE Null,
         avg_unread_count |->
            IF SummaryCount(objs, "avg_unread_count") > 0
            THEN Round1(SummarySum(objs, "avg_unread_count"),
                        100 * SummaryCount(objs, "avg_unread_count"))
            ELSE Null,
         unread_threshold |-> c.unread_threshold,
         avg_response_time |->
            IF weighted_rt_denominator > 0
            THEN Round1(weighted_rt_numerator, 100 * weighted_rt_denominator)
            ELSE IF SummaryCount(objs, "avg_response_time_minutes") > 0
            THEN Round1(SummarySum(objs, "avg_response_time_minutes"),
                        100 * SummaryCount(objs, "avg_response_time_minutes"))
            ELSE Null,
         response_time_target |-> WeekResponseTarget,
         sla_compliance |->
            IF total_emails_weight_for_sla > 0
            THEN Round1(weighted_sla_sum, 100 * total_emails_weight_for_sla)
            ELSE IF SummaryCount(stored, "sla_compliance_rate") > 0
            THEN Round1(SummarySum(stored, "sla_compliance_rate"),
                        100 * SummaryCount(stored, "sla_compliance_rate"))
            ELSE Null,
         sla_compliance_target |-> WeekSlaTarget,
         data_days_count |-> used_days_count,
         has_partial_week |-> used_days_count < 3]

\* the hours a weekly block that starts at h_start takes its entries from
WeekBlockHours(c, h_start) ==
    {h \in Hours : h >= h_start /\ h < Min(h_start + 2, c.end_hour)}

\* the hourly entries of the stored days of the dates, one after the other
RECURSIVE HourlyOfDates(_, _)
HourlyOfDates(days_data, dates) ==
    IF dates = <<>> THEN <<>>
    ELSE (IF Head(dates) \in DOMAIN days_data
          THEN Get(days_data[Head(dates)], "hourly_data", <<>>) ELSE <<>>)
            \o HourlyOfDates(days_data, Tail(dates))

\* emails_received, else emails, else 0
WeekEmails(item) ==
    LET r == Get(item, "emails_received", Null)
        e == IF IsNumber(r) THEN r ELSE Get(item, "emails", Null)
    IN  IF IsNumber(e) THEN e ELSE 0

\* avg_response_time, else avg_response_time_minutes
WeekResponseTime(item) ==
    IF Get(item, "avg_response_time", Null) # Null THEN item.avg_response_time
    ELSE Get(item, "avg_response_time_minutes", Null)

\* the replies where positive, else the emails where positive, else None
WeekWeight(item) ==
    LET r == Get(item, "emails_replied", Null)
        replies == IF IsNumber(r) THEN r ELSE Get(item, "replies", Null)
    IN  IF IsNumber(replies) /\ replies > 0 THEN replies
        ELSE IF WeekEmails(item) > 0 THEN WeekEmails(item)
        ELSE Null

\* every entry's response time, once for each unit of its weight, at most
\* 200 times
RECURSIVE WeekExpand(_)
WeekExpand(items) ==
    IF items = <<>> THEN <<>>
    ELSE [i \in 1 .. Min(200, Max(1, WeekWeight(Head(items)))) |->
             WeekResponseTime(Head(items))]
            \o WeekExpand(Tail(items))

\* one block of compute_two_hour_metrics_week
WeekBlock(c, pool, h_start) ==
    LET items == SelectSeq(pool, LAMBDA item :
                               Get(item, "hour", Null) \in WeekBlockHours(c, h_start))
        unread_samples == NotNa([i \in 1 .. Len(items) |-> Get(items[i], "unread_count", Null)])
        weighted == SelectSeq(items, LAMBDA item :
                                  /\ IsNumber(WeekResponseTime(item))
                                  /\ WeekWeight(item) # Null
                                  /\ WeekWeight(item) > 0)
        rt_weighted_sum == SeqSum([i \in 1 .. Len(weighted) |->
                                      WeekResponseTime(weighted[i]) * WeekWeight(weighted[i])])
        rt_weight_total == SeqSum([i \in 1 .. Len(weighted) |-> WeekWeight(weighted[i])])
        rt_samples_for_median == WeekExpand(weighted)
    IN  [start_hour |-> h_start,
         emails |-> SeqSum([i \in 1 .. Len(items) |-> WeekEmails(items[i])]),
         avg_unread |-> MeanOrNull(unread_samples, 1),
         avg_response_time |->
            IF rt_weight_total > 0 THEN Round1(rt_weighted_sum, 100 * rt_weight_total)
            ELSE Null,
         median_response_time |->
            IF rt_samples_for_median = <<>> THEN Null
            ELSE Round1(MedianTwice(rt_samples_for_median), 200)]

\* for h_start in range(start_hour_b, end_hour_b, 2)
compute_two_hour_metrics_week(days_data, c, dates) ==
    LET n == IF c.end_hour > c.start_hour
             THEN (c.end_hour - c.start_hour + 1) \div 2 ELSE 0
        pool == HourlyOfDates(days_data, dates)
    IN  [k \in 1 .. n |-> WeekBlock(c, pool, c.start_hour + 2 * (k - 1))]

---------------------------------------------------------------------------
(* The files.                                                               *)
(* The store file is [kind, db]: kind "absent", "ok" (a JSON document of    *)
(* the Database shape, db), "nostruct" (a JSON object without metadata and  *)
(* days), "garbled" (not JSON) or "partial" (a document cut short by an     *)
(* interrupted write, which is not JSON either).  An input file is          *)
(* [present, rows].                                                         *)

MaxRuns == 2

\* the two calendar dates of the input files: a Wednesday and the Thursday
\* after it
InputDates == <<2, 3>>

D1 == InputDates[1]

D2 == InputDates[2]

At(day, hour, minute) == day * MinutesPerDay + hour * 60 + minute

Event(c, type, ts, mid) == [conv |-> c, type |-> type, ts |-> ts, mid |-> mid]

Unread(date, hour, unread, title) ==
    [date |-> date, hour |-> hour, unread |-> unread, title |-> title]

File(r) == [present |-> TRUE, rows |-> r]

AbsentFile == [present |-> FALSE, rows |-> <<>>]

\* events files: an Inbox event answered 90 minutes later; the same Inbox
\* event still unanswered; a second day's Inbox event completed, then replied
EventFiles ==
    { File(<<Event(1, "Inbox", At(D1, 8, 0), 1), Event(1, "Replied", At(D1, 9, 30), 2)>>),
      File(<<Event(1, "Inbox", At(D1, 8, 0), 1)>>),
      File(<<Event(2, "Inbox", At(D2, 10, 0), 3), Event(2, "Completed", At(D2, 10, 10), 4),
             Event(2, "Replied", At(D2, 10, 30), 5)>>) }

\* unread-count files: header only; one reading over the threshold; one
\* reading under it at another hour
UnreadFiles ==
    { File(<<>>),
      File(<<Unread(D1, 8, 35, "SLA NOT MET")>>),
      File(<<Unread(D1, 9, 20, "SLA MET")>>) }

Store(kind, db) == [kind |-> kind, db |-> db]

\* a day left by an earlier version: two hourly entries only
LegacyDay ==
    [date |-> D1, has_email_data |-> TRUE, has_sla_data |-> TRUE,
     daily_summary |-> [total_emails |-> 2, sla_compliance_rate |-> 10000],
     hourly_data |->
        << [hour |-> 8, unread_count |-> 12, sla_met |-> 1, emails_received |-> 2,
            emails_replied |-> 1, avg_response_time |-> 4500],
           [hour |-> 9, unread_count |-> 14, sla_met |-> 1] >>]

LegacyStore ==
    [metadata |-> [total_days_processed |-> 1, data_sources |-> {"08-14-25.csv"},
                   earliest_date |-> D1, latest_date |-> D1],
     days |-> SetKey(EmptyDict, D1, LegacyDay)]

\* a store whose days were emptied and whose metadata was not
StaleStore ==
    [metadata |-> [total_days_processed |-> 1, data_sources |-> {"08-14-25.csv"},
                   earliest_date |-> D1, latest_date |-> D1],
     days |-> EmptyDict]

InitialStores ==
    { Store("absent", NewDatabase), Store("garbled", NewDatabase),
      Store("nostruct", NewDatabase), Store("ok", LegacyStore), Store("ok", StaleStore) }

NoBatch == [events |-> AbsentFile, unread |-> AbsentFile]

\* what is remembered of the last merge: the database it was given, the one
\* it returned, the files it read, whether it repeated the merge before it
\* (the same files, on that merge's result), what the run found in the store
\* file, and why the last run failed
NoHist ==
    [merged |-> FALSE, pre |-> NewDatabase, post |-> NewDatabase, batch |-> NoBatch,
     repeat |-> FALSE, found |-> "unread", why |-> "none"]

NoResults == [done |-> FALSE, ii |-> <<>>, ec |-> <<>>]

\* no span measured
NoSpan == [start |-> Null, end |-> Null, mid |-> Null]

NoMinutes == [done |-> FALSE, whole |-> Null, reverse |-> Null, left |-> Null, right |-> Null]

NoDash ==
    [day |-> <<>>, response_time_by_hour |-> <<>>, percentiles_data |-> <<>>,
     two_hour_metrics |-> <<>>, context |-> <<>>]

NoWeek == [days |-> <<>>, html |-> <<>>, kpis |-> <<>>, two_hour_metrics_week |-> <<>>]

\* no batches merged
NoOrders == [done |-> FALSE, together |-> <<>>, email_first |-> <<>>, sla_first |-> <<>>]

Parseable(store) == store.kind \in {"ok", "nostruct"}

\* json.load of the store file, when it can be parsed
Parsed(store) == IF store.kind = "ok" THEN store.db ELSE EmptyDict

Backup(name, run, store) == [name |-> name, run |-> run, kind |-> store.kind]

---------------------------------------------------------------------------
(* The run of either program, step by step *)

Init ==
    /\ cfg = DefaultCfg
    /\ prog \in {"II", "EC"}
    /\ disk \in InitialStores
    /\ backups = {}
    /\ ingest = NoBatch
    /\ pc = "idle"
    /\ mem = EmptyDict
    /\ runs = 0
    /\ hist = NoHist
    /\ csv = <<>>
    /\ records = NoResults
    /\ span = NoSpan
    /\ minutes = NoMinutes
    /\ dash = NoDash
    /\ week = NoWeek
    /\ orders = NoOrders
    /\ backup_dir \in {"writable", "full"}

\* the operator puts files into the ingest folder and starts a run
PlaceFiles(e, u) ==
    /\ pc \in {"idle", "done", "rejected"}
    /\ runs < MaxRuns
    /\ ingest' = [events |-> e, unread |-> u]
    /\ runs' = runs + 1
    /\ pc' = "start"
    /\ hist' = [hist EXCEPT !.why = "none", !.found = "unread"]
    /\ UNCHANGED <<cfg, prog, disk, backups, mem, csv, records, span, minutes, dash, week, orders, backup_dir>>

\* IntelligentIngester.run: "Check if input files exist"
II_Check ==
    /\ prog = "II" /\ pc = "start"
    /\ IF ~ingest.events.present /\ ~ingest.unread.present
       THEN /\ pc' = "rejected"
            /\ hist' = [hist EXCEPT !.why = "no_input"]
       ELSE /\ pc' = "checked"
            /\ UNCHANGED hist
    /\ UNCHANGED <<cfg, prog, disk, backups, ingest, mem, runs, csv, records, span, minutes, dash, week, orders, backup_dir>>

\* IntelligentIngester.create_backup of a file that exists: the names of the
\* backup files written.  With no room in the backup folder shutil.copy2
\* raises; create_backup then logs the error and returns None, and no caller
\* looks at what it returns
create_backup(b) == IF backup_dir = "writable" THEN {b} ELSE {}

InputBackup(name, run) == [name |-> name, run |-> run, kind |-> "input"]

\* IntelligentIngester.run: "Create backups of existing files"
II_Backup ==
    /\ prog = "II" /\ pc = "checked"
    /\ backups' = backups
          \cup (IF disk.kind # "absent"
                THEN create_backup(Backup("email_database", runs, disk)) ELSE {})
          \cup (IF ingest.events.present
                THEN create_backup(InputBackup("Complete_List_Raw", runs)) ELSE {})
          \cup (IF ingest.unread.present
                THEN create_backup(InputBackup("UnreadCount", runs)) ELSE {})
    /\ pc' = "backed"
    /\ UNCHANGED <<cfg, prog, disk, ingest, mem, runs, hist, csv, records, span, minutes, dash, week, orders, backup_dir>>

\* IntelligentIngester.load_existing_database
II_Load ==
    /\ prog = "II" /\ pc = "backed"
    /\ IF disk.kind # "absent" /\ Parseable(disk)
       THEN /\ mem' = Parsed(disk)
            /\ UNCHANGED backups
       ELSE /\ mem' = NewDatabase
            /\ backups' = backups \cup
                  (IF disk.kind # "absent"
                   THEN create_backup(Backup("email_database_corrupted", runs, disk))
                   ELSE {})
    /\ hist' = [hist EXCEPT !.found = disk.kind]
    /\ pc' = "loaded"
    /\ UNCHANGED <<cfg, prog, disk, ingest, runs, csv, records, span, minutes, dash, week, orders, backup_dir>>

\* the record of a merge
Merged(pre, post, batch) ==
    [hist EXCEPT !.merged = TRUE, !.pre = pre, !.post = post, !.batch = batch,
                 !.repeat = hist.merged /\ pre = hist.post /\ batch = hist.batch]

\* IntelligentIngester.run: process_email_events, process_sla_data and
\* merge_with_existing; a database without "metadata" raises KeyError
II_Merge ==
    /\ prog = "II" /\ pc = "loaded"
    /\ IF "metadata" \notin DOMAIN mem
       THEN /\ pc' = "crashed"
            /\ hist' = [hist EXCEPT !.why = "bad_store"]
            /\ UNCHANGED mem
       ELSE LET email_df == II_process_email_events(cfg, ingest.events.rows)
                sla_df == II_process_sla_data(cfg, ingest.unread.rows)
                updated_db == II_merge_with_existing(cfg, mem, email_df, sla_df)
            IN  /\ mem' = updated_db
                /\ hist' = Merged(mem, updated_db, ingest)
                /\ pc' = "merged"
    /\ UNCHANGED <<cfg, prog, disk, backups, ingest, runs, csv, records, span, minutes, dash, week, orders, backup_dir>>

\* save_database: open(database_path, 'w') empties the file
II_SaveOpen ==
    /\ prog = "II" /\ pc = "merged"
    /\ disk' = Store("partial", NewDatabase)
    /\ pc' = "writing"
    /\ UNCHANGED <<cfg, prog, backups, ingest, mem, runs, hist, csv, records, span, minutes, dash, week, orders, backup_dir>>

\* save_database: json.dump completes and the file is closed
II_SaveWrite ==
    /\ prog = "II" /\ pc = "writing"
    /\ disk' = Store("ok", mem)
    /\ pc' = "saved"
    /\ UNCHANGED <<cfg, prog, backups, ingest, mem, runs, hist, csv, records, span, minutes, dash, week, orders, backup_dir>>

\* save_database: the write raises (a full disk, say); save_database returns
\* False and so does run
II_SaveError ==
    /\ prog = "II" /\ pc = "writing"
    /\ pc' = "failed"
    /\ hist' = [hist EXCEPT !.why = "write_error"]
    /\ mem' = EmptyDict
    /\ UNCHANGED <<cfg, prog, disk, backups, ingest, runs, csv, records, span, minutes, dash, week, orders, backup_dir>>

\* IntelligentIngester.run: "Move processed files to backup"; the backup
\* folder is in the data folder of the ingest folder, so that shutil.move
\* renames the file and needs no room
II_Move ==
    /\ prog = "II" /\ pc = "saved"
    /\ backups' = backups
          \cup (IF ingest.events.present
                THEN {InputBackup("Complete_List_Raw_processed", runs)} ELSE {})
          \cup (IF ingest.unread.present
                THEN {InputBackup("UnreadCount_processed", runs)} ELSE {})
    /\ ingest' = NoBatch
    /\ mem' = EmptyDict
    /\ pc' = "done"
    /\ UNCHANGED <<cfg, prog, disk, runs, hist, csv, records, span, minutes, dash, week, orders, backup_dir>>

\* EmailClassifier.run up to load_sla_data: load_data raises without an
\* events file, generate_summary_stats raises on a frame without records,
\* load_sla_data raises without the unread-count file
EC_Load ==
    /\ prog = "EC" /\ pc = "start"
    /\ LET df == EC_load_data(ingest.events.rows)
           results_df == EC_process_conversations(cfg, df)
       IN  IF ~ingest.events.present \/ ~ingest.unread.present
           THEN /\ pc' = "rejected"
                /\ hist' = [hist EXCEPT !.why = "missing_file"]
           ELSE IF results_df = <<>>
           THEN /\ pc' = "rejected"
                /\ hist' = [hist EXCEPT !.why = "no_records"]
           ELSE /\ pc' = "loaded"
                /\ UNCHANGED hist
    /\ UNCHANGED <<cfg, prog, disk, backups, ingest, mem, runs, csv, records, span, minutes, dash, week, orders, backup_dir>>

\* save_to_unified_json up to the write: read the store file, merge
EC_Merge ==
    /\ prog = "EC" /\ pc = "loaded"
    /\ LET df == EC_load_data(ingest.events.rows)
           results_df == EC_process_conversations(cfg, df)
           sla_df == EC_load_sla_data(ingest.unread.rows)
           daily_sla_rates == EC_calculate_daily_sla_rates(cfg, sla_df)
           existing_db == IF Parseable(disk) THEN Parsed(disk) ELSE EmptyDict
           database == EC_Merged(existing_db,
                                 EC_NewSources(TRUE, {"Complete_List_Raw.csv"}),
                                 df, results_df, sla_df, daily_sla_rates)
       IN  /\ mem' = database
           /\ hist' = [Merged(existing_db, database, ingest) EXCEPT !.found = disk.kind]
    /\ pc' = "merged"
    /\ UNCHANGED <<cfg, prog, disk, backups, ingest, runs, csv, records, span, minutes, dash, week, orders, backup_dir>>

\* save_to_unified_json: open(json_path, 'w') empties the file
EC_SaveOpen ==
    /\ prog = "EC" /\ pc = "merged"
    /\ disk' = Store("partial", NewDatabase)
    /\ pc' = "writing"
    /\ UNCHANGED <<cfg, prog, backups, ingest, mem, runs, hist, csv, records, span, minutes, dash, week, orders, backup_dir>>

\* save_to_unified_json: json.dump completes; run returns
EC_SaveWrite ==
    /\ prog = "EC" /\ pc = "writing"
    /\ disk' = Store("ok", mem)
    /\ mem' = EmptyDict
    /\ pc' = "done"
    /\ UNCHANGED <<cfg, prog, backups, ingest, runs, hist, csv, records, span, minutes, dash, week, orders, backup_dir>>

\* save_to_unified_json: the write raises, and the exception ends the run
EC_SaveError ==
    /\ prog = "EC" /\ pc = "writing"
    /\ pc' = "failed"
    /\ hist' = [hist EXCEPT !.why = "write_error"]
    /\ mem' = EmptyDict
    /\ UNCHANGED <<cfg, prog, disk, backups, ingest, runs, csv, records, span, minutes, dash, week, orders, backup_dir>>

\* the process is killed: before the write, during it, or after it
Kill ==
    /\ pc \in {"merged", "writing", "saved"}
    /\ pc' = "crashed"
    /\ hist' = [hist EXCEPT !.why = "killed"]
    /\ mem' = EmptyDict
    /\ UNCHANGED <<cfg, prog, disk, backups, ingest, runs, csv, records, span, minutes, dash, week, orders, backup_dir>>

Next ==
    \/ \E e \in EventFiles \cup {AbsentFile}, u \in UnreadFiles \cup {AbsentFile} :
          PlaceFiles(e, u)
    \/ II_Check
    \/ II_Backup
    \/ II_Load
    \/ II_Merge
    \/ II_SaveOpen
    \/ II_SaveWrite
    \/ II_SaveError
    \/ II_Move
    \/ EC_Load
    \/ EC_Merge
    \/ EC_SaveOpen
    \/ EC_SaveWrite
    \/ EC_SaveError
    \/ Kill

Spec == Init /\ [][Next]_vars

---------------------------------------------------------------------------
(* The classification of one events file by both programs *)

MatchLen == 3

EventTypes == {"Inbox", "Replied", "Completed"}

MatchConvs == {1, 2}

\* the Inbox time T0 of the priority example, T0 + 10 min and T0 + 30 min
MatchTimes == {At(D1, 8, 0), At(D1, 8, 10), At(D1, 8, 30)}

\* the rows an events file may hold, but for the MessageId
MatchRows == [conv : MatchConvs, type : EventTypes, ts : MatchTimes]

\* the file of some rows, each row with its own MessageId
MatchFile(f) == [i \in 1 .. Len(f) |-> Event(f[i].conv, f[i].type, f[i].ts, i)]

\* every events file of at most MatchLen rows
MatchInit ==
    /\ cfg = DefaultCfg
    /\ prog = "both"
    /\ disk = Store("absent", NewDatabase)
    /\ backups = {}
    /\ ingest = NoBatch
    /\ pc = "classify"
    /\ mem = EmptyDict
    /\ runs = 0
    /\ hist = NoHist
    /\ \E n \in 1 .. MatchLen : \E f \in [1 .. n -> MatchRows] : csv = MatchFile(f)
    /\ records = NoResults
    /\ span = NoSpan
    /\ minutes = NoMinutes
    /\ dash = NoDash
    /\ week = NoWeek
    /\ orders = NoOrders
    /\ backup_dir = "writable"

\* process_email_events and load_data + process_conversations on the file
Classify ==
    /\ pc = "classify"
    /\ records' = [done |-> TRUE,
                   ii |-> II_process_email_events(cfg, csv),
                   ec |-> EC_process_conversations(cfg, EC_load_data(csv))]
    /\ pc' = "classified"
    /\ UNCHANGED <<cfg, prog, disk, backups, ingest, mem, runs, hist, csv, span, minutes, dash, week, orders, backup_dir>>

MatchNext == Classify

SpecMatch == MatchInit /\ [][MatchNext]_vars

---------------------------------------------------------------------------
(* The measurement of a time span: calculate_business_minutes on a start and *)
(* an end, and on the two parts an instant between them cuts the span into.  *)

\* number of calendar days the instants are taken from (more than a week)
CalDays == 9

\* times of day, in minutes: midnight, the opening and closing hours of the
\* configurations below, and times inside and outside their windows
CalTimes == {0, 7 * 60, 9 * 60, 12 * 60 + 30, 17 * 60, 22 * 60}

CalInstants == {At(d, 0, t) : d \in 0 .. CalDays - 1, t \in CalTimes}

\* the default configuration, office hours on Monday to Friday, and long
\* hours on Tuesday, Thursday and Sunday
CalConfigs ==
    { DefaultCfg,
      [start_hour |-> 9, end_hour |-> 17, business_days |-> 0 .. 4, unread_threshold |-> 30],
      [start_hour |-> 7, end_hour |-> 22, business_days |-> {1, 3, 6}, unread_threshold |-> 30] }

CalInit ==
    /\ cfg \in CalConfigs
    /\ prog = "both"
    /\ disk = Store("absent", NewDatabase)
    /\ backups = {}
    /\ ingest = NoBatch
    /\ pc = "measure"
    /\ mem = EmptyDict
    /\ runs = 0
    /\ hist = NoHist
    /\ csv = <<>>
    /\ records = NoResults
    /\ \E a, c \in CalInstants \cup {Null} : span = [start |-> a, end |-> c, mid |-> Null]
    /\ minutes = NoMinutes
    /\ dash = NoDash
    /\ week = NoWeek
    /\ orders = NoOrders
    /\ backup_dir = "writable"

\* calculate_business_minutes(start, end), and with the arguments exchanged
Measure ==
    /\ pc = "measure"
    /\ minutes' = [minutes EXCEPT
                      !.done = TRUE,
                      !.whole = calculate_business_minutes(cfg, span.start, span.end),
                      !.reverse = calculate_business_minutes(cfg, span.end, span.start)]
    /\ pc' = "measured"
    /\ UNCHANGED <<cfg, prog, disk, backups, ingest, mem, runs, hist, csv, records, span, dash, week, orders, backup_dir>>

\* calculate_business_minutes on the two parts of the span cut at b
Split(b) ==
    /\ pc = "measured"
    /\ span.start # Null /\ span.end # Null
    /\ span.start < b /\ b < span.end
    /\ span' = [span EXCEPT !.mid = b]
    /\ minutes' = [minutes EXCEPT
                      !.left = calculate_business_minutes(cfg, span.start, b),
                      !.right = calculate_business_minutes(cfg, b, span.end)]
    /\ pc' = "split"
    /\ UNCHANGED <<cfg, prog, disk, backups, ingest, mem, runs, hist, csv, records, dash, week, orders, backup_dir>>

CalNext ==
    \/ Measure
    \/ \E b \in CalInstants : Split(b)

SpecCal == CalInit /\ [][CalNext]_vars

---------------------------------------------------------------------------
(* One run on an events file that may hold the same row several times.       *)

\* the greatest number of rows of such a file
DupLen == 3

\* an Inbox event, the same event under another MessageId, its reply, and
\* an Inbox event of another conversation on another date
DupRows ==
    { Event(1, "Inbox", At(D1, 8, 0), 1), Event(1, "Inbox", At(D1, 8, 0), 2),
      Event(1, "Replied", At(D1, 9, 30), 3), Event(2, "Inbox", At(D2, 10, 0), 4) }

DupInit ==
    /\ cfg = DefaultCfg
    /\ prog \in {"II", "EC"}
    /\ disk = Store("absent", NewDatabase)
    /\ backups = {}
    /\ \E n \in 1 .. DupLen : \E f \in [1 .. n -> DupRows] :
          ingest = [events |-> File(f), unread |-> File(<<>>)]
    /\ pc = "start"
    /\ mem = EmptyDict
    /\ runs = 1
    /\ hist = NoHist
    /\ csv = <<>>
    /\ records = NoResults
    /\ span = NoSpan
    /\ minutes = NoMinutes
    /\ dash = NoDash
    /\ week = NoWeek
    /\ orders = NoOrders
    /\ backup_dir = "writable"

\* a run up to the merge
RunNext ==
    \/ II_Check
    \/ II_Backup
    \/ II_Load
    \/ II_Merge
    \/ EC_Load
    \/ EC_Merge

SpecDup == DupInit /\ [][RunNext]_vars

---------------------------------------------------------------------------
(* One run on an unread-count file whose readings fall inside and outside    *)
(* the business hours and days, under two configurations.                    *)

\* the greatest number of readings of such a file
SlaLen == 2

\* a Saturday
Weekend == InputDates[2] + 2

\* readings on a Wednesday at 08:00 (over the threshold), at 12:00 (over the
\* threshold, titled as met), at 21:00 and at 22:00, and one on a Saturday
SlaRows ==
    { Unread(D1, 8, 35, "SLA NOT MET"), Unread(D1, 12, 35, "SLA MET"),
      Unread(D1, 21, 10, "SLA MET"), Unread(D1, 22, 10, "SLA MET"),
      Unread(Weekend, 10, 20, "SLA MET") }

\* the default configuration, and office hours on Monday to Friday
SlaConfigs ==
    { DefaultCfg,
      [start_hour |-> 9, end_hour |-> 17, business_days |-> 0 .. 4, unread_threshold |-> 30] }

SlaInit ==
    /\ cfg \in SlaConfigs
    /\ prog \in {"II", "EC"}
    /\ disk \in {Store("absent", NewDatabase), Store("ok", LegacyStore)}
    /\ backups = {}
    /\ \E n \in 0 .. SlaLen : \E f \in [1 .. n -> SlaRows] :
          ingest = [events |-> File(<<Event(1, "Inbox", At(D1, 8, 0), 1)>>),
                    unread |-> File(f)]
    /\ pc = "start"
    /\ mem = EmptyDict
    /\ runs = 1
    /\ hist = NoHist
    /\ csv = <<>>
    /\ records = NoResults
    /\ span = NoSpan
    /\ minutes = NoMinutes
    /\ dash = NoDash
    /\ week = NoWeek
    /\ orders = NoOrders
    /\ backup_dir = "writable"

SpecSla == SlaInit /\ [][RunNext]_vars

---------------------------------------------------------------------------
(* One run on an events file of one day whose Inbox events are replied to,   *)
(* completed without a reply, or left unanswered.                            *)

\* the greatest number of rows of such a file
HourLen == 3

\* an Inbox event and its reply, an Inbox event of another conversation in
\* the same hour and its completion, and a later Inbox event of that
\* conversation
HourRows ==
    { Event(1, "Inbox", At(D1, 8, 0), 1), Event(1, "Replied", At(D1, 9, 30), 2),
      Event(2, "Inbox", At(D1, 8, 20), 3), Event(2, "Completed", At(D1, 9, 0), 4),
      Event(2, "Inbox", At(D1, 10, 0), 5) }

\* no row of the file repeats another
HourInit ==
    /\ cfg = DefaultCfg
    /\ prog \in {"II", "EC"}
    /\ disk = Store("absent", NewDatabase)
    /\ backups = {}
    /\ \E n \in 1 .. HourLen : \E f \in [1 .. n -> HourRows] :
          /\ \A i, j \in 1 .. n : i # j => f[i] # f[j]
          /\ ingest = [events |-> File(f), unread |-> File(<<>>)]
    /\ pc = "start"
    /\ mem = EmptyDict
    /\ runs = 1
    /\ hist = NoHist
    /\ csv = <<>>
    /\ records = NoResults
    /\ span = NoSpan
    /\ minutes = NoMinutes
    /\ dash = NoDash
    /\ week = NoWeek
    /\ orders = NoOrders
    /\ backup_dir = "writable"

SpecHour == HourInit /\ [][RunNext]_vars

---------------------------------------------------------------------------
(* The daily dashboard of one stored day, under two configurations: the      *)
(* steps of generate_dashboard that compute the response-time figures.       *)

\* the number of hours of the day that hold data, from 16:00 on
DashLen == 3

DashHours == 16 .. (16 + DashLen - 1)

\* what an hour holds of the unread readings: nothing, a reading that met
\* the threshold, one that did not
SlaReadings ==
    { [unread_count |-> Null, sla_met |-> Null],
      [unread_count |-> 10, sla_met |-> 1],
      [unread_count |-> 35, sla_met |-> 0] }

\* what an hour holds of the emails: none, two of which one was answered in
\* 40 minutes, three of which two were answered in 150 minutes on average
EmailCounts ==
    { [emails_received |-> 0, emails_replied |-> 0, avg_response_time |-> Null],
      [emails_received |-> 2, emails_replied |-> 1, avg_response_time |-> 4000],
      [emails_received |-> 3, emails_replied |-> 2, avg_response_time |-> 15000] }

\* a stored day with both kinds of data whose hours of DashHours hold f and g
StoredDay(f, g) ==
    LET hourly_data ==
            [i \in 1 .. HoursPerDay |->
                IF (i - 1) \in DashHours
                THEN Update(Update(EC_EmptyHour(i - 1), f[i - 1]), g[i - 1])
                ELSE EC_EmptyHour(i - 1)]
        weight == TotalWeight(hourly_data)
    IN  [date |-> D1, has_email_data |-> TRUE, has_sla_data |-> TRUE,
         daily_summary |->
            [total_emails |-> SeqSum(Column(hourly_data, "emails_received")),
             avg_response_time_minutes |->
                IF weight > 0 THEN Round2(WeightedSum(hourly_data), 100 * weight)
                ELSE Null],
         hourly_data |-> hourly_data]

\* the default hours (7-21, fourteen hours) and nine hours from 8 to 17
DashConfigs ==
    { DefaultCfg,
      [start_hour |-> 8, end_hour |-> 17, business_days |-> 0 .. 4, unread_threshold |-> 30] }

DashInit ==
    /\ cfg \in DashConfigs
    /\ prog = "II"
    /\ disk = Store("absent", NewDatabase)
    /\ backups = {}
    /\ ingest = [events |-> AbsentFile, unread |-> AbsentFile]
    /\ pc = "dash"
    /\ mem = EmptyDict
    /\ runs = 1
    /\ hist = NoHist
    /\ csv = <<>>
    /\ records = NoResults
    /\ span = NoSpan
    /\ minutes = NoMinutes
    /\ \E f \in [DashHours -> SlaReadings] : \E g \in [DashHours -> EmailCounts] :
          dash = [NoDash EXCEPT !.day = StoredDay(f, g)]
    /\ week = NoWeek
    /\ orders = NoOrders
    /\ backup_dir = "writable"

ResponseTimeByHour ==
    /\ pc = "dash"
    /\ dash' = [dash EXCEPT !.response_time_by_hour =
                                calculate_response_time_by_hour(dash.day.hourly_data)]
    /\ pc' = "by_hour"
    /\ UNCHANGED <<cfg, prog, disk, backups, ingest, mem, runs, hist, csv, records,
                   span, minutes, week, orders, backup_dir>>

\* the percentiles are taken over the business hours
ResponseTimePercentiles ==
    /\ pc = "by_hour"
    /\ dash' = [dash EXCEPT !.percentiles_data =
                   calculate_response_time_percentiles(
                       extract_business_hours_data(cfg, dash.day.hourly_data))]
    /\ pc' = "percentiles"
    /\ UNCHANGED <<cfg, prog, disk, backups, ingest, mem, runs, hist, csv, records,
                   span, minutes, week, orders, backup_dir>>

TwoHourIntervals ==
    /\ pc = "percentiles"
    /\ dash' = [dash EXCEPT !.two_hour_metrics =
                                aggregate_two_hour_intervals(cfg, dash.day.hourly_data)]
    /\ pc' = "intervals"
    /\ UNCHANGED <<cfg, prog, disk, backups, ingest, mem, runs, hist, csv, records,
                   span, minutes, week, orders, backup_dir>>

TemplateContext ==
    /\ pc = "intervals"
    /\ dash' = [dash EXCEPT !.context =
                   DashboardContext(cfg, dash.day, dash.response_time_by_hour,
                                    dash.percentiles_data, dash.two_hour_metrics)]
    /\ pc' = "context"
    /\ UNCHANGED <<cfg, prog, disk, backups, ingest, mem, runs, hist, csv, records,
                   span, minutes, week, orders, backup_dir>>

DashNext ==
    \/ ResponseTimeByHour
    \/ ResponseTimePercentiles
    \/ TwoHourIntervals
    \/ TemplateContext

SpecDash == DashInit /\ [][DashNext]_vars

---------------------------------------------------------------------------
(* The weekly dashboard of a range of dates, some stored with both kinds of  *)
(* data, some with one, some not at all, some with a rendered daily report.  *)

\* the number of dates of the range
WeekLen == 4

\* the range starts on a Friday
WeekDates == [i \in 1 .. WeekLen |-> 3 + i]

\* a stored day with emails and readings, at 08:00 and at 17:00
BothDay(d) ==
    [date |-> d, has_email_data |-> TRUE, has_sla_data |-> TRUE,
     daily_summary |-> [total_emails |-> 10, avg_response_time_minutes |-> 3000,
                        sla_compliance_rate |-> 5000, avg_unread_count |-> 2350],
     hourly_data |->
        [i \in 1 .. HoursPerDay |->
            IF i - 1 = 8
            THEN [hour |-> 8, unread_count |-> 12, sla_met |-> 1, emails_received |-> 6,
                  emails_replied |-> 5, avg_response_time |-> 3000]
            ELSE IF i - 1 = 17
            THEN [hour |-> 17, unread_count |-> 35, sla_met |-> 0, emails_received |-> 4,
                  emails_replied |-> 0, avg_response_time |-> Null]
            ELSE EC_EmptyHour(i - 1)]]

\* a stored day with emails alone, at 09:00
EmailOnlyDay(d) ==
    [date |-> d, has_email_data |-> TRUE, has_sla_data |-> FALSE,
     daily_summary |-> [total_emails |-> 4, avg_response_time_minutes |-> 4000,
                        sla_compliance_rate |-> Null, avg_unread_count |-> Null],
     hourly_data |->
        [i \in 1 .. HoursPerDay |->
            IF i - 1 = 9
            THEN Update(EC_EmptyHour(9),
                        [emails_received |-> 4, emails_replied |-> 2,
                         avg_response_time |-> 4000])
            ELSE EC_EmptyHour(i - 1)]]

\* a stored day with readings alone, at 10:00, as IntelligentIngester
\* leaves it
SlaOnlyDay(d) ==
    [date |-> d, has_email_data |-> FALSE, has_sla_data |-> TRUE,
     daily_summary |-> [sla_compliance_rate |-> 10000, avg_unread_count |-> 2000],
     hourly_data |->
        [i \in 1 .. HoursPerDay |->
            IF i - 1 = 10 THEN [hour |-> 10, unread_count |-> 20, sla_met |-> 1]
            ELSE [hour |-> i - 1]]]

\* the KPI cards of a rendered daily report
DailyReport ==
    [k \in {"Total Emails", "Avg Unread Count", "Avg Response Time", "SLA Compliance"} |->
        CASE k = "Total Emails" -> 6
          [] k = "Avg Unread Count" -> 125
          [] k = "Avg Response Time" -> 450
          [] OTHER -> 750]

\* what there is for a date
WeekKinds == {"absent", "report", "both", "email", "sla", "sla+report"}

\* the store and the reports of a choice f of kinds for the dates
WeekStore(f) ==
    [d \in {WeekDates[i] : i \in {j \in 1 .. WeekLen : f[j] \notin {"absent", "report"}}} |->
        LET kind == f[d - 3]
        IN  IF kind = "both" THEN BothDay(d)
            ELSE IF kind = "email" THEN EmailOnlyDay(d)
            ELSE SlaOnlyDay(d)]

WeekReports(f) ==
    [d \in {WeekDates[i] : i \in {j \in 1 .. WeekLen : f[j] \in {"report", "sla+report"}}} |->
        DailyReport]

WeekConfigs == DashConfigs

WeekInit ==
    /\ cfg \in WeekConfigs
    /\ prog = "II"
    /\ disk = Store("absent", NewDatabase)
    /\ backups = {}
    /\ ingest = [events |-> AbsentFile, unread |-> AbsentFile]
    /\ pc = "week"
    /\ mem = EmptyDict
    /\ runs = 1
    /\ hist = NoHist
    /\ csv = <<>>
    /\ records = NoResults
    /\ span = NoSpan
    /\ minutes = NoMinutes
    /\ dash = NoDash
    /\ \E f \in [1 .. WeekLen -> WeekKinds] :
          week = [NoWeek EXCEPT !.days = WeekStore(f), !.html = WeekReports(f)]
    /\ orders = NoOrders
    /\ backup_dir = "writable"

WeeklyKpis ==
    /\ pc = "week"
    /\ week' = [week EXCEPT !.kpis = compute_weekly_kpis(week.days, cfg, WeekDates, week.html)]
    /\ pc' = "kpis"
    /\ UNCHANGED <<cfg, prog, disk, backups, ingest, mem, runs, hist, csv, records,
                   span, minutes, dash, orders, backup_dir>>

WeeklyTwoHourMetrics ==
    /\ pc = "kpis"
    /\ week' = [week EXCEPT !.two_hour_metrics_week =
                                compute_two_hour_metrics_week(week.days, cfg, WeekDates)]
    /\ pc' = "blocks"
    /\ UNCHANGED <<cfg, prog, disk, backups, ingest, mem, runs, hist, csv, records,
                   span, minutes, dash, orders, backup_dir>>

WeekNext ==
    \/ WeeklyKpis
    \/ WeeklyTwoHourMetrics

SpecWeek == WeekInit /\ [][WeekNext]_vars

---------------------------------------------------------------------------
(* Two batches merged into a store in three orders: the events batch and     *)
(* the readings batch together, the events first, the readings first.        *)

\* the greatest number of rows of a batch
MergeLen == 2

\* the date before the input dates: a Tuesday
D0 == D1 - 1

MergeEvents ==
    << Event(1, "Inbox", At(D1, 8, 0), 1), Event(1, "Replied", At(D1, 8, 30), 2),
       Event(2, "Inbox", At(D2, 9, 0), 3), Event(2, "Completed", At(D2, 9, 20), 4) >>

MergeReadings ==
    << Unread(D1, 8, 35, "SLA NOT MET"), Unread(D1, 9, 20, "SLA MET"),
       Unread(D2, 9, 5, "SLA MET"), Unread(D2, 22, 10, "SLA MET") >>

\* a day left by an earlier version, its later hour first
UnsortedDay ==
    [date |-> D0, has_email_data |-> TRUE, has_sla_data |-> TRUE,
     daily_summary |-> [total_emails |-> 3, sla_compliance_rate |-> 5000],
     hourly_data |->
        << [hour |-> 9, unread_count |-> 40, sla_met |-> 0, emails_received |-> 1,
            emails_replied |-> 0, avg_response_time |-> Null],
           [hour |-> 8, unread_count |-> 12, sla_met |-> 1, emails_received |-> 2,
            emails_replied |-> 2, avg_response_time |-> 3000] >>]

UnsortedStore ==
    [metadata |-> [total_days_processed |-> 2, data_sources |-> {"08-14-25.csv"},
                   earliest_date |-> D0, latest_date |-> D1],
     days |-> SetKey(SetKey(EmptyDict, D0, UnsortedDay), D1, LegacyDay)]

MergeStores == {NewDatabase, LegacyStore, UnsortedStore}

\* the rows of a file taken in the file's order
Rows(all, f) == [i \in DOMAIN f |-> all[f[i]]]

\* the database one run's merge returns from the store and the rows of the
\* two files (no rows: the file is absent)
MergeOf(c, p, db, events, unread) ==
    IF p = "II"
    THEN II_merge_with_existing(c, db, II_process_email_events(c, events),
                                II_process_sla_data(c, unread))
    ELSE LET df == EC_load_data(events)
             sla_df == EC_load_sla_data(unread)
         IN  EC_Merged(db, EC_NewSources(unread # <<>>,
                                         IF events # <<>> THEN {"Complete_List_Raw.csv"}
                                         ELSE {}),
                       df, EC_process_conversations(c, df), sla_df,
                       EC_calculate_daily_sla_rates(c, sla_df))

MergeInit ==
    /\ cfg = DefaultCfg
    /\ prog \in {"II", "EC"}
    /\ \E db \in MergeStores : disk = Store("ok", db)
    /\ backups = {}
    /\ \E n \in 0 .. MergeLen : \E m \in 0 .. MergeLen :
       \E f \in [1 .. n -> DOMAIN MergeEvents] : \E g \in [1 .. m -> DOMAIN MergeReadings] :
          /\ \A i, j \in 1 .. n : i < j => f[i] < f[j]
          /\ \A i, j \in 1 .. m : i < j => g[i] < g[j]
          /\ ingest = [events |-> File(Rows(MergeEvents, f)),
                       unread |-> File(Rows(MergeReadings, g))]
    /\ pc = "orders"
    /\ mem = EmptyDict
    /\ runs = 0
    /\ hist = NoHist
    /\ csv = <<>>
    /\ records = NoResults
    /\ span = NoSpan
    /\ minutes = NoMinutes
    /\ dash = NoDash
    /\ week = NoWeek
    /\ orders = NoOrders
    /\ backup_dir = "writable"

\* one run that reads both files
MergeTogether ==
    /\ pc = "orders"
    /\ orders' = [orders EXCEPT !.together =
                     MergeOf(cfg, prog, disk.db, ingest.events.rows, ingest.unread.rows).days]
    /\ pc' = "together"
    /\ UNCHANGED <<cfg, prog, disk, backups, ingest, mem, runs, hist, csv, records,
                   span, minutes, dash, week, backup_dir>>

\* a run that reads the events, then a run that reads the readings
MergeEmailFirst ==
    /\ pc = "together"
    /\ orders' = [orders EXCEPT !.email_first =
                     MergeOf(cfg, prog,
                             MergeOf(cfg, prog, disk.db, ingest.events.rows, <<>>),
                             <<>>, ingest.unread.rows).days]
    /\ pc' = "email_first"
    /\ UNCHANGED <<cfg, prog, disk, backups, ingest, mem, runs, hist, csv, records,
                   span, minutes, dash, week, backup_dir>>

\* a run that reads the readings, then a run that reads the events
MergeSlaFirst ==
    /\ pc = "email_first"
    /\ orders' = [orders EXCEPT !.done = TRUE, !.sla_first =
                     MergeOf(cfg, prog,
                             MergeOf(cfg, prog, disk.db, <<>>, ingest.unread.rows),
                             ingest.events.rows, <<>>).days]
    /\ pc' = "sla_first"
    /\ UNCHANGED <<cfg, prog, disk, backups, ingest, mem, runs, hist, csv, records,
                   span, minutes, dash, week, backup_dir>>

MergeNext ==
    \/ MergeTogether
    \/ MergeEmailFirst
    \/ MergeSlaFirst

SpecMerge == MergeInit /\ [][MergeNext]_vars

---------------------------------------------------------------------------
(* Properties of a merge.  hist.pre is the database the last merge was       *)
(* given, hist.post the one it returned, hist.batch the files it read.       *)

DaysOf(db) == Get(db, "days", EmptyDict)

SourcesOf(db) == Get(Get(db, "metadata", EmptyDict), "data_sources", {})

\* the value of a field of the entry of hour h in a day (Null when the day
\* has no such entry or the entry has no such field)
HourField(day, h, f) ==
    LET found == {i \in 1 .. Len(day.hourly_data) :
                     Get(day.hourly_data[i], "hour", Null) = h}
    IN  IF found = {} THEN Null ELSE Get(day.hourly_data[SetMin(found)], f, Null)

EmailSummaryKeys ==
    {"total_emails", "replied_count", "completed_count", "pending_count",
     "reply_rate_percent", "avg_response_time_minutes", "median_response_time_minutes"}

SlaSummaryKeys == {"sla_compliance_rate", "avg_unread_count"}

EmailHourKeys == {"emails_received", "emails_replied", "avg_response_time"}

SlaHourKeys == {"unread_count", "sla_met"}

\* the source names the files of a batch supply
Supplied(batch) ==
    (IF batch.events.present THEN {"Complete_List_Raw.csv"} ELSE {})
    \cup (IF batch.unread.present THEN {"UnreadCount.csv"} ELSE {})

\* C1: merging the files that the merge before it merged, into that merge's
\* result, returns that result: the same days and the same metadata.
C1_MergeIdempotent ==
    (hist.merged /\ hist.repeat) => hist.post = hist.pre

\* a repeated merge of files that hold both events and unread readings
C1_Witness ==
    /\ pc = "merged" /\ hist.repeat
    /\ hist.batch.events.rows # <<>> /\ hist.batch.unread.rows # <<>>
    /\ DOMAIN hist.post.days # {}

\* C2: after a merge every day of the store has 24 hourly entries, of the
\* hours 0..23 in this order, whatever the day's hourly_data was before.
C2_TwentyFourSlots ==
    hist.merged =>
        \A d \in DOMAIN hist.post.days :
            /\ Len(hist.post.days[d].hourly_data) = HoursPerDay
            /\ \A i \in 1 .. Len(hist.post.days[d].hourly_data) :
                  Get(hist.post.days[d].hourly_data[i], "hour", Null) = i - 1

\* C3: a day whose has_email_data (has_sla_data) was true in the database a
\* merge was given is in the database the merge returns, with the flag true.
C3_FlagsMonotone ==
    hist.merged =>
        \A d \in DOMAIN DaysOf(hist.pre) :
            /\ d \in DOMAIN hist.post.days
            /\ DaysOf(hist.pre)[d].has_email_data => hist.post.days[d].has_email_data
            /\ DaysOf(hist.pre)[d].has_sla_data => hist.post.days[d].has_sla_data

\* a merge of unread readings alone into a store that has a day with email
\* data, and one of events alone into a store that has a day with SLA data
C3_Witness ==
    /\ pc = "merged"
    /\ \/ /\ hist.batch.events.rows = <<>> /\ hist.batch.unread.rows # <<>>
          /\ \E d \in DOMAIN DaysOf(hist.pre) : DaysOf(hist.pre)[d].has_email_data
       \/ /\ hist.batch.unread.rows = <<>> /\ hist.batch.events.rows # <<>>
          /\ \E d \in DOMAIN DaysOf(hist.pre) :
                /\ DaysOf(hist.pre)[d].has_sla_data
                /\ \A i \in 1 .. Len(hist.batch.events.rows) :
                      DateOf(hist.batch.events.rows[i].ts) # d

\* C4: after a merge data_sources is the union of the sources the store
\* recorded before and the names of the files the run supplied.
C4_SourcesUnion ==
    hist.merged =>
        SourcesOf(hist.post) = SourcesOf(hist.pre) \cup Supplied(hist.batch)

\* C5: after a merge earliest_date, latest_date and total_days_processed are
\* the least key, the greatest key and the number of keys of days (no date
\* when days is empty).
C5_MetadataOfDays ==
    hist.merged =>
        LET all_dates == DOMAIN hist.post.days
            m == hist.post.metadata
        IN  /\ m.total_days_processed = Cardinality(all_dates)
            /\ m.earliest_date = IF all_dates = {} THEN Null ELSE SetMin(all_dates)
            /\ m.latest_date = IF all_dates = {} THEN Null ELSE SetMax(all_dates)

\* C6: a merge replaces no stored non-null summary value or hourly field of
\* an existing day by null, and leaves the fields of a data type untouched
\* when the input has no file of that type.
C6_OverwriteIfPresent ==
    hist.merged =>
        \A d \in DOMAIN DaysOf(hist.pre) \cap DOMAIN hist.post.days :
            LET old == DaysOf(hist.pre)[d]
                new == hist.post.days[d]
            IN  /\ \A k \in EmailSummaryKeys \cup SlaSummaryKeys :
                      Get(old.daily_summary, k, Null) # Null
                          => Get(new.daily_summary, k, Null) # Null
                /\ \A h \in Hours, f \in EmailHourKeys \cup SlaHourKeys :
                      HourField(old, h, f) # Null => HourField(new, h, f) # Null
                /\ ~hist.batch.events.present =>
                      /\ \A k \in EmailSummaryKeys :
                            Get(new.daily_summary, k, Null) = Get(old.daily_summary, k, Null)
                      /\ \A h \in Hours, f \in EmailHourKeys :
                            HourField(new, h, f) = HourField(old, h, f)
                /\ ~hist.batch.unread.present =>
                      /\ \A k \in SlaSummaryKeys :
                            Get(new.daily_summary, k, Null) = Get(old.daily_summary, k, Null)
                      /\ \A h \in Hours, f \in SlaHourKeys :
                            HourField(new, h, f) = HourField(old, h, f)

\* C7: a run that finds the store file present but unreadable or without
\* structure does not crash on it, and merges into a fresh store only after
\* it has backed the file up under the name of a corrupted store.
C7_CorruptStoreRecovered ==
    hist.found \in {"garbled", "partial", "nostruct"} =>
        /\ hist.why # "bad_store"
        /\ pc \in {"merged", "writing", "saved", "done"} =>
              /\ \E b \in backups :
                    b.name = "email_database_corrupted" /\ b.run = runs
              /\ DaysOf(hist.pre) = EmptyDict
              /\ pc \in {"saved", "done"} => disk = Store("ok", hist.post)

\* C8: a run that fails or is killed leaves the store file a complete
\* document: a failure comes before any write to the file.
C8_AtomicCommit ==
    pc \in {"failed", "crashed"} => disk.kind # "partial"

\* C9: a run refuses its inputs only when both input files are absent.
C9_FailsOnlyWithoutInputs ==
    pc = "rejected" => (~ingest.events.present /\ ~ingest.unread.present)

---------------------------------------------------------------------------
(* Properties of the matcher, over the rows of one events file.              *)

\* the rows of Replied events of a record's conversation strictly later
\* than the record's Inbox event
LaterReplied(r) ==
    {j \in 1 .. Len(csv) :
        /\ csv[j].conv = r.conversation_id
        /\ csv[j].type = "Replied"
        /\ csv[j].ts > r.inbox_timestamp}

PriorityHolds(results) ==
    /\ \A i \in 1 .. Len(csv) :
          csv[i].type = "Inbox" =>
              \E k \in 1 .. Len(results) :
                  /\ results[k].conversation_id = csv[i].conv
                  /\ results[k].inbox_timestamp = csv[i].ts
    /\ \A k \in 1 .. Len(results) :
          LET r == results[k]
          IN  /\ LaterReplied(r) # {} =>
                    /\ r.status = "Replied"
                    /\ \E j \in LaterReplied(r) :
                          /\ csv[j].ts = r.response_timestamp
                          /\ csv[j].mid = r.response_message_id
              /\ r.status = "Completed" => LaterReplied(r) = {}

\* C10: an Inbox event whose conversation has a Replied event strictly later
\* is classified Replied and resolved by a Replied event, also when a
\* Completed event lies between them; Completed is the status only when no
\* later Replied event exists.  Both matchers.
C10_RepliedOverCompleted ==
    records.done => (PriorityHolds(records.ii) /\ PriorityHolds(records.ec))

\* both matchers classified an Inbox event Replied although a Completed
\* event of the conversation lies strictly between it and the Replied event
C10_Witness ==
    /\ records.done
    /\ \A results \in {records.ii, records.ec} :
          \E k \in 1 .. Len(results) :
              /\ results[k].status = "Replied"
              /\ \E j \in 1 .. Len(csv) :
                    /\ csv[j].conv = results[k].conversation_id
                    /\ csv[j].type = "Completed"
                    /\ csv[j].ts > results[k].inbox_timestamp
                    /\ csv[j].ts < results[k].response_timestamp

\* the rows of a record's conversation that hold an event of the type
LaterOfType(r, type) ==
    {j \in 1 .. Len(csv) :
        /\ csv[j].conv = r.conversation_id
        /\ csv[j].type = type
        /\ csv[j].ts > r.inbox_timestamp}

EarliestHolds(results) ==
    \A k \in 1 .. Len(results) :
        LET r == results[k]
        IN  r.status \in {"Replied", "Completed"} =>
                /\ r.response_timestamp > r.inbox_timestamp
                /\ \E j \in LaterOfType(r, r.status) :
                      /\ csv[j].ts = r.response_timestamp
                      /\ csv[j].mid = r.response_message_id
                /\ \A j \in LaterOfType(r, r.status) : csv[j].ts >= r.response_timestamp

\* C11: the resolving event of an Inbox event is the earliest event of the
\* chosen type strictly later than the Inbox: none at or before the Inbox's
\* timestamp is chosen, none of the type lies between.  Both matchers.
C11_EarliestLater ==
    records.done => (EarliestHolds(records.ii) /\ EarliestHolds(records.ec))

\* both matchers resolved an Inbox event whose conversation also holds an
\* event of the chosen type at the Inbox's own timestamp or before it
C11_Witness ==
    /\ records.done
    /\ \A results \in {records.ii, records.ec} :
          \E k \in 1 .. Len(results) :
              /\ results[k].status \in {"Replied", "Completed"}
              /\ \E j \in 1 .. Len(csv) :
                    /\ csv[j].conv = results[k].conversation_id
                    /\ csv[j].type = results[k].status
                    /\ csv[j].ts <= results[k].inbox_timestamp

PendingHolds(results) ==
    \A k \in 1 .. Len(results) :
        LET r == results[k]
            unresolved == LaterOfType(r, "Replied") \cup LaterOfType(r, "Completed") = {}
        IN  /\ unresolved =>
                /\ r.status = "Pending"
                /\ r.response_timestamp = Null
                /\ r.response_message_id = Null
                /\ r.response_time_minutes = Null
            /\ r.status \in {"Replied", "Completed"} =>
                /\ ~unresolved
                /\ r.response_timestamp # Null
                /\ r.response_time_minutes # Null
                /\ r.response_time_minutes >= 0

\* C12: an Inbox event with no Replied and no Completed event strictly later
\* in its conversation is Pending, with no resolving event and no response
\* time; a Replied or Completed record has a resolving event and a response
\* time that is not null and not negative.  Both matchers.
C12_PendingAndResolved ==
    records.done => (PendingHolds(records.ii) /\ PendingHolds(records.ec))

\* a file with a resolved Inbox event and a Pending one whose conversation
\* holds a Replied or Completed event that is not later than it
C12_Witness ==
    /\ records.done
    /\ \A results \in {records.ii, records.ec} :
          /\ \E k \in 1 .. Len(results) : results[k].status \in {"Replied", "Completed"}
          /\ \E k \in 1 .. Len(results) :
                /\ results[k].status = "Pending"
                /\ \E j \in 1 .. Len(csv) :
                      /\ csv[j].conv = results[k].conversation_id
                      /\ csv[j].type # "Inbox"

---------------------------------------------------------------------------
(* Properties of calculate_business_minutes, over a measured span.           *)

Measured == minutes.done /\ span.start # Null /\ span.end # Null

\* whether the calendar day of an instant, or a day, is a business day
BusinessDay(c, day) == (day % 7) \in c.business_days

\* the length of the part of the span [a, b] inside the window of a day
WindowPart(c, a, b, day) ==
    LET opening == day * MinutesPerDay + 60 * c.start_hour
        closing == day * MinutesPerDay + 60 * c.end_hour
        from == IF a > opening THEN a ELSE opening
        to == IF b < closing THEN b ELSE closing
    IN  IF to > from THEN to - from ELSE 0

\* the reference sum: every calendar day from a's to b's that is a business
\* day gives the part of [a, b] inside its window
ReferenceMinutes(c, a, b) ==
    LET first == a \div MinutesPerDay
        last == b \div MinutesPerDay
        part[day \in first - 1 .. last] ==
            IF day < first THEN 0
            ELSE part[day - 1]
                 + (IF BusinessDay(c, day) THEN WindowPart(c, a, b, day) ELSE 0)
    IN  part[last]

\* C13: for instants a < b < c, the business minutes of [a, c] are those of
\* [a, b] plus those of [b, c], under every configuration.
C13_Additive ==
    pc = "split" => minutes.whole = minutes.left + minutes.right

\* a span of several days cut inside a business window, both parts counting
C13_Witness ==
    /\ pc = "split"
    /\ minutes.left > 0 /\ minutes.right > 0
    /\ span.mid \div MinutesPerDay > span.start \div MinutesPerDay
    /\ span.mid \div MinutesPerDay < span.end \div MinutesPerDay
    /\ BusinessDay(cfg, span.mid \div MinutesPerDay)
    /\ span.mid % MinutesPerDay > 60 * cfg.start_hour
    /\ span.mid % MinutesPerDay < 60 * cfg.end_hour

\* C14, as stated: the business minutes of [a, b] are 0 whenever a and b
\* both fall on a non-business weekday.
C14_ZeroBetweenNonBusinessDays ==
    (/\ Measured
     /\ ~BusinessDay(cfg, span.start \div MinutesPerDay)
     /\ ~BusinessDay(cfg, span.end \div MinutesPerDay))
        => minutes.whole = 0

\* C14, amended: the business minutes of [a, b] are 0 whenever a and b fall
\* on non-business weekdays and no calendar day from a's to b's is a
\* business day.
C14_ZeroOverNonBusinessDays ==
    (/\ Measured
     /\ \A day \in span.start \div MinutesPerDay .. span.end \div MinutesPerDay :
            ~BusinessDay(cfg, day))
        => minutes.whole = 0

\* a span from one non-business day into the next one, over hours that are
\* inside the window
C14_Witness ==
    /\ Measured
    /\ span.start < span.end
    /\ span.start \div MinutesPerDay < span.end \div MinutesPerDay
    /\ \A day \in span.start \div MinutesPerDay .. span.end \div MinutesPerDay :
            ~BusinessDay(cfg, day)
    /\ WindowPart(cfg, span.start, span.end, span.end \div MinutesPerDay) > 0

\* C15: for start < end the business minutes are the reference sum over the
\* calendar days from start's to end's, each day once, and lie between 0 and
\* the minutes elapsed.
C15_ReferenceSum ==
    (Measured /\ span.start < span.end) =>
        /\ minutes.whole = ReferenceMinutes(cfg, span.start, span.end)
        /\ minutes.whole >= 0
        /\ minutes.whole <= span.end - span.start

\* a span of more than a week that starts after closing time and holds
\* business days and other days
C15_Witness ==
    /\ Measured
    /\ span.end - span.start > 7 * MinutesPerDay
    /\ span.start % MinutesPerDay >= 60 * cfg.end_hour
    /\ \E day \in 0 .. 6 : ~BusinessDay(cfg, day)
    /\ minutes.whole > 0
    /\ minutes.whole < span.end - span.start

\* C16: the result is 0 when end <= start and is the undefined value, which
\* is not 0, when an input is missing, also when the other input would make
\* the order check answer 0; it is never negative.
C16_ZeroAndUndefined ==
    minutes.done =>
        /\ (span.start = Null \/ span.end = Null) =>
              (minutes.whole = Null /\ minutes.reverse = Null /\ Null # 0)
        /\ (span.start # Null /\ span.end # Null) =>
              /\ minutes.whole # Null /\ minutes.whole >= 0
              /\ minutes.reverse # Null /\ minutes.reverse >= 0
              /\ span.end <= span.start => minutes.whole = 0
              /\ span.start <= span.end => minutes.reverse = 0

\* a measurement with the end missing, and one of a span taken backwards
\* over business time
C16_Witness ==
    /\ minutes.done
    /\ \/ span.start # Null /\ span.end = Null
       \/ /\ Measured /\ span.end < span.start
          /\ ReferenceMinutes(cfg, span.end, span.start) > 0

---------------------------------------------------------------------------
(* Properties of one run's merge into an absent or given store.              *)

\* the different Inbox rows of the events file of the batch, on a date and
\* at an hour
InboxRows(batch, d, hours) ==
    {e \in {batch.events.rows[i] : i \in 1 .. Len(batch.events.rows)} :
        e.type = "Inbox" /\ DateOf(e.ts) = d /\ HourOf(e.ts) \in hours}

\* C17: rows that repeat a row (same conversation, timestamp, type and
\* MessageId) count once: a day's total_emails and an hour's emails_received
\* are the numbers of different Inbox rows of that day and hour, so that
\* many records were made.
C17_DuplicatesCountOnce ==
    hist.merged =>
        \A d \in {D1, D2} :
            InboxRows(hist.batch, d, Hours) # {} =>
                /\ d \in DOMAIN hist.post.days
                /\ Get(hist.post.days[d].daily_summary, "total_emails", Null)
                      = Cardinality(InboxRows(hist.batch, d, Hours))
                /\ \A h \in Hours :
                      HourField(hist.post.days[d], h, "emails_received")
                          = Cardinality(InboxRows(hist.batch, d, {h}))

\* the readings of the batch for a date and some hours, by row number
Readings(batch, d, hours) ==
    {i \in 1 .. Len(batch.unread.rows) :
        batch.unread.rows[i].date = d /\ batch.unread.rows[i].hour \in hours}

\* the readings of a date that count for its daily rates: at an hour inside
\* the business hours, on a business day
Qualifying(c, batch, d) ==
    IF (d % 7) \in c.business_days
    THEN Readings(batch, d, {h \in Hours : h >= c.start_hour /\ h < c.end_hour})
    ELSE {}

\* the sum of f over a set of row numbers
RECURSIVE SumOver(_, _)
SumOver(S, f) ==
    IF S = {} THEN 0
    ELSE LET i == CHOOSE x \in S : TRUE
         IN  f[i] + SumOver(S \ {i}, f)

\* C18: a day's sla_compliance_rate and avg_unread_count come from the
\* readings inside the business hours on a business day alone, and both are
\* null when the day's readings hold none.
C18_DailyRatesOverBusinessReadings ==
    hist.merged =>
        \A d \in {D1, Weekend} :
            Readings(hist.batch, d, Hours) # {} =>
                LET Q == Qualifying(cfg, hist.batch, d)
                    rows == hist.batch.unread.rows
                    met == [i \in DOMAIN rows |->
                               IF rows[i].unread <= cfg.unread_threshold THEN 1 ELSE 0]
                    unread == [i \in DOMAIN rows |-> rows[i].unread]
                    summary == IF d \in DOMAIN hist.post.days
                               THEN hist.post.days[d].daily_summary ELSE EmptyDict
                IN  IF Q = {}
                    THEN /\ Get(summary, "sla_compliance_rate", Null) = Null
                         /\ Get(summary, "avg_unread_count", Null) = Null
                    ELSE /\ Get(summary, "sla_compliance_rate", Null)
                               = Round2(100 * SumOver(Q, met), Cardinality(Q))
                         /\ Get(summary, "avg_unread_count", Null)
                               = Round2(SumOver(Q, unread), Cardinality(Q))

\* C19: in every stored day an hour with a reading carries the reading's
\* unread_count and an sla_met, and an hour that never had a reading has both
\* fields, present and null.
C19_HourlySlaFields ==
    hist.merged =>
        \A d \in DOMAIN hist.post.days : \A h \in Hours :
            LET read == Readings(hist.batch, d, {h})
                day == hist.post.days[d]
                slots == {i \in 1 .. Len(day.hourly_data) :
                             Get(day.hourly_data[i], "hour", Null) = h}
                before == IF d \in DOMAIN DaysOf(hist.pre)
                          THEN HourField(DaysOf(hist.pre)[d], h, "unread_count") ELSE Null
            IN  IF read # {}
                THEN /\ HourField(day, h, "unread_count")
                           = hist.batch.unread.rows[SetMax(read)].unread
                     /\ HourField(day, h, "sla_met") # Null
                ELSE before = Null =>
                        /\ slots # {}
                        /\ \A i \in slots :
                              /\ {"unread_count", "sla_met"} \subseteq DOMAIN day.hourly_data[i]
                              /\ day.hourly_data[i].unread_count = Null
                              /\ day.hourly_data[i].sla_met = Null

\* C20: in every stored hour with a reading, sla_met is true exactly when
\* unread_count is at most the configured threshold, whatever the title of
\* the reading.
C20_SlaMetByThreshold ==
    hist.merged =>
        \A d \in DOMAIN hist.post.days : \A h \in Hours :
            HourField(hist.post.days[d], h, "unread_count") # Null =>
                (HourField(hist.post.days[d], h, "sla_met") = 1
                    <=> HourField(hist.post.days[d], h, "unread_count") <= cfg.unread_threshold)

\* the time of the event that resolves an Inbox row of the events file: the
\* earliest later reply of its conversation, else the earliest later
\* completion, else none
ResolvedAt(rows, e) ==
    LET later(type) == {rows[i].ts : i \in {j \in 1 .. Len(rows) :
                           /\ rows[j].conv = e.conv
                           /\ rows[j].type = type
                           /\ rows[j].ts > e.ts}}
    IN  IF later("Replied") # {} THEN SetMin(later("Replied"))
        ELSE IF later("Completed") # {} THEN SetMin(later("Completed"))
        ELSE Null

\* the Inbox rows of the events file on a date and at an hour, by row number
InboxAt(rows, d, h) ==
    {i \in 1 .. Len(rows) :
        rows[i].type = "Inbox" /\ DateOf(rows[i].ts) = d /\ HourOf(rows[i].ts) = h}

\* C21: in a merged day, an hour's emails_received is the number of the
\* day's Inbox events in the hour, emails_replied the number of those that
\* are resolved (replied or completed), and avg_response_time the mean
\* response minutes of the resolved ones, null exactly when there is none.
C21_HourlyEmailStatistics ==
    hist.merged =>
        \A d \in DOMAIN hist.post.days : \A h \in Hours :
            LET rows == hist.batch.events.rows
                received == InboxAt(rows, d, h)
                resolved == {i \in received : ResolvedAt(rows, rows[i]) # Null}
                response == [i \in DOMAIN rows |->
                                IF i \in resolved
                                THEN calculate_business_minutes(cfg, rows[i].ts,
                                                                ResolvedAt(rows, rows[i]))
                                ELSE 0]
                day == hist.post.days[d]
            IN  /\ HourField(day, h, "emails_received") = Cardinality(received)
                /\ HourField(day, h, "emails_replied") = Cardinality(resolved)
                /\ HourField(day, h, "avg_response_time")
                      = IF resolved = {} THEN Null
                        ELSE Round2(SumOver(resolved, response), Cardinality(resolved))
                /\ HourField(day, h, "emails_replied") <= HourField(day, h, "emails_received")
                /\ HourField(day, h, "avg_response_time") # Null
                      <=> HourField(day, h, "emails_replied") > 0

(* Properties of the daily dashboard.                                        *)

\* the periods have been computed
ByHourDone == pc \in {"by_hour", "percentiles", "intervals", "context"}

\* the replies of the hours of a set, and the sum of their response times
\* weighted by the replies, taken from the day itself
RepliesIn(day, hours) ==
    SumOver({i \in 1 .. Len(day.hourly_data) :
                /\ day.hourly_data[i].hour \in hours
                /\ day.hourly_data[i].avg_response_time # Null
                /\ day.hourly_data[i].emails_replied > 0},
            [i \in 1 .. Len(day.hourly_data) |-> day.hourly_data[i].emails_replied])

ResponseIn(day, hours) ==
    SumOver({i \in 1 .. Len(day.hourly_data) :
                /\ day.hourly_data[i].hour \in hours
                /\ day.hourly_data[i].avg_response_time # Null
                /\ day.hourly_data[i].emails_replied > 0},
            [i \in 1 .. Len(day.hourly_data) |->
                OrZero(day.hourly_data[i].avg_response_time)
                    * day.hourly_data[i].emails_replied])

\* C22: a period's average response time is the mean of its hours' averages
\* weighted by their replies, and a period without replies reports no value
\* (null), not the number 0.
C22_PeriodWeightedMean ==
    ByHourDone =>
        \A i \in 1 .. Len(Periods) :
            LET weight == RepliesIn(dash.day, Periods[i].hours)
                reported == dash.response_time_by_hour[i]
            IN  /\ reported.period = Periods[i].period
                /\ reported.avg_response_time
                      = IF weight > 0
                        THEN Round1(ResponseIn(dash.day, Periods[i].hours), 100 * weight)
                        ELSE Null

\* a period that has replies reports their weighted mean
PeriodMeanWhereReplied ==
    ByHourDone =>
        \A i \in 1 .. Len(Periods) :
            LET weight == RepliesIn(dash.day, Periods[i].hours)
            IN  weight > 0 =>
                    dash.response_time_by_hour[i].avg_response_time
                        = Round1(ResponseIn(dash.day, Periods[i].hours), 100 * weight)

\* the number of response-time observations of the business hours of the
\* day: the replies of the hours that hold an average
Observations(c, day) ==
    RepliesIn(day, {h \in Hours : c.start_hour <= h /\ h <= c.end_hour})

\* C23: without any response-time observation the percentiles are a no-data
\* result, and the dashboard takes them as absent: its median (P50) figure
\* and its quartile counts hold no number, not the value 0.
C23_NoObservationsNoPercentiles ==
    (pc = "context" /\ Observations(cfg, dash.day) = 0) =>
        /\ dash.percentiles_data.has_data = FALSE
        /\ dash.context.quartile_counts = <<>>
        /\ dash.context.median_response_time = Null

\* without observations calculate_response_time_percentiles itself returns
\* the no-data result, and the quartile counts of the dashboard are empty
NoDataResultReturned ==
    (pc = "context" /\ Observations(cfg, dash.day) = 0) =>
        /\ dash.percentiles_data.has_data = FALSE
        /\ dash.context.quartile_counts = <<>>

\* the blocks have been computed
IntervalsDone == pc \in {"intervals", "context"}

\* the entries of the day for the two hours of the block that starts at
\* start which hold a value of field f, by position
Measured2(day, start, f) ==
    {i \in 1 .. Len(day.hourly_data) :
        /\ day.hourly_data[i].hour \in {start, start + 1}
        /\ day.hourly_data[i][f] # Null}

\* C24: a block's sla_met is true exactly when every hour of the block that
\* has a reading met the SLA, false when one of them failed, and null when
\* no hour of the block has a reading; its avg_unread is the mean over the
\* hours that have a reading, null when there is none.
C24_BlockSlaMet ==
    IntervalsDone =>
        \A k \in 1 .. Len(dash.two_hour_metrics) :
            LET b == dash.two_hour_metrics[k]
                read == Measured2(dash.day, b.start_hour, "sla_met")
                counted == Measured2(dash.day, b.start_hour, "unread_count")
                unread == [i \in 1 .. Len(dash.day.hourly_data) |->
                              dash.day.hourly_data[i].unread_count]
            IN  /\ b.sla_met \in {Null, 0, 1}
                /\ b.sla_met = Null <=> read = {}
                /\ b.sla_met = 1 <=>
                      (read # {} /\ \A i \in read : dash.day.hourly_data[i].sla_met = 1)
                /\ b.avg_unread = IF counted = {} THEN Null
                                  ELSE Round1(SumOver(counted, unread), Cardinality(counted))

\* a block one of whose hours met the SLA and the other did not
C24_Witness ==
    /\ IntervalsDone
    /\ \E k \in 1 .. Len(dash.two_hour_metrics) :
          LET b == dash.two_hour_metrics[k]
              read == Measured2(dash.day, b.start_hour, "sla_met")
          IN  /\ b.sla_met = 0
              /\ \E i, j \in read : /\ dash.day.hourly_data[i].sla_met = 1
                                    /\ dash.day.hourly_data[j].sla_met = 0

(* Properties of the weekly dashboard.                                       *)

\* the KPIs have been computed
KpisDone == pc \in {"kpis", "blocks"}

\* the dates of the range that have a stored day
StoredDates == {d \in DOMAIN week.days : \E i \in 1 .. WeekLen : WeekDates[i] = d}

\* the stored days of the range with both kinds of data
QualifyingDates ==
    {d \in StoredDates : week.days[d].has_email_data /\ week.days[d].has_sla_data}

\* the emails of a stored day: its daily total, else the sum of its hours
StoredEmails(day) ==
    IF "total_emails" \in DOMAIN day.daily_summary /\ day.daily_summary.total_emails # Null
    THEN day.daily_summary.total_emails
    ELSE SumOver(1 .. Len(day.hourly_data),
                 [i \in 1 .. Len(day.hourly_data) |->
                     OrZero(Get(day.hourly_data[i], "emails_received", Null))])

\* C25: total_emails is the sum over the stored days of the range, a day
\* counts in data_days_count only if it has both email data and SLA data (a
\* day with one kind adds to the sum and not to the count), and
\* has_partial_week holds exactly when fewer than 3 days count.
C25_DaysCountedWithBothKinds ==
    KpisDone =>
        /\ week.kpis.total_emails
              = SumOver(StoredDates, [d \in StoredDates |-> StoredEmails(week.days[d])])
        /\ week.kpis.data_days_count = Cardinality(QualifyingDates)
        /\ week.kpis.has_partial_week <=> Cardinality(QualifyingDates) < 3

\* the same, for the ranges none of whose dates has a rendered daily report
CountedWithoutReports ==
    (KpisDone /\ DOMAIN week.html = {}) =>
        /\ week.kpis.total_emails
              = SumOver(StoredDates, [d \in StoredDates |-> StoredEmails(week.days[d])])
        /\ week.kpis.data_days_count = Cardinality(QualifyingDates)
        /\ week.kpis.has_partial_week <=> Cardinality(QualifyingDates) < 3

(* Properties of the records of the Inbox events of a conversation.          *)

\* every Inbox row of the file has exactly one record
OneRecordEach(results) ==
    /\ Len(results) = Cardinality({j \in 1 .. Len(csv) : csv[j].type = "Inbox"})
    /\ \A j \in 1 .. Len(csv) :
          csv[j].type = "Inbox" =>
              Cardinality({k \in 1 .. Len(results) :
                              /\ results[k].conversation_id = csv[j].conv
                              /\ results[k].inbox_timestamp = csv[j].ts
                              /\ results[k].inbox_message_id = csv[j].mid}) = 1

\* a resolved record was resolved by an event of its conversation after its
\* own timestamp
OwnWindow(results) ==
    \A k \in 1 .. Len(results) :
        results[k].status # "Pending" =>
            \E j \in 1 .. Len(csv) :
                /\ csv[j].conv = results[k].conversation_id
                /\ csv[j].type = results[k].status
                /\ csv[j].ts = results[k].response_timestamp
                /\ csv[j].ts > results[k].inbox_timestamp

\* the records a Replied row of the file resolves
ResolvedBy(results, j) ==
    {k \in 1 .. Len(results) :
        /\ results[k].conversation_id = csv[j].conv
        /\ results[k].status = "Replied"
        /\ results[k].response_timestamp = csv[j].ts}

\* the Replied rows that are the only reply of their conversation
SingleReplies ==
    {j \in 1 .. Len(csv) :
        /\ csv[j].type = "Replied"
        /\ \A i \in 1 .. Len(csv) :
              (csv[i].conv = csv[j].conv /\ csv[i].type = "Replied") => i = j}

\* C26: every Inbox event has exactly one record, classified from the events
\* after its own timestamp, and the single reply of a conversation resolves
\* one Inbox event alone, the first that precedes it.
C26_ReplyResolvesFirstInboxOnly ==
    records.done =>
        \A results \in {records.ii, records.ec} :
            /\ OneRecordEach(results)
            /\ OwnWindow(results)
            /\ \A j \in SingleReplies : Cardinality(ResolvedBy(results, j)) <= 1

\* C26, amended: every Inbox event has exactly one record, classified from
\* the events after its own timestamp, and the single reply of a
\* conversation resolves every Inbox event of the conversation that precedes
\* it.
C26_ReplyResolvesEveryEarlierInbox ==
    records.done =>
        \A results \in {records.ii, records.ec} :
            /\ OneRecordEach(results)
            /\ OwnWindow(results)
            /\ \A j \in SingleReplies :
                  \A k \in 1 .. Len(results) :
                      k \in ResolvedBy(results, j)
                          <=> /\ results[k].conversation_id = csv[j].conv
                              /\ results[k].inbox_timestamp < csv[j].ts

\* two Inbox events of a conversation precede its only reply, and both
\* programs resolved both by it
C26_Witness ==
    /\ records.done
    /\ \E j \in SingleReplies :
          /\ Cardinality(ResolvedBy(records.ii, j)) = 2
          /\ Cardinality(ResolvedBy(records.ec, j)) = 2

---------------------------------------------------------------------------
(* Properties of the three orders of merging (SpecMerge) *)

\* the dates that occur in the two files
BatchDates ==
    {DateOf(ingest.events.rows[i].ts) : i \in DOMAIN ingest.events.rows}
        \cup {ingest.unread.rows[i].date : i \in DOMAIN ingest.unread.rows}

\* the stored days of dates that do not occur in the files
Untouched == (DOMAIN disk.db.days) \ BatchDates

\* C27: a merge leaves the DayRecord of every date that does not occur in the
\* new input exactly as it was (flags, daily_summary, hourly_data with its
\* length and order), whatever the store holds.
C27_OtherDaysUntouched ==
    pc = "together" =>
        \A d \in Untouched : d \in DOMAIN orders.together /\ orders.together[d] = disk.db.days[d]

\* what does hold: an untouched day keeps everything but the order of its
\* hourly entries
OtherDaysKeptUpToOrder ==
    pc = "together" =>
        \A d \in Untouched :
            /\ d \in DOMAIN orders.together
            /\ [orders.together[d] EXCEPT !.hourly_data = SortByKey(@, "hour")]
                  = [disk.db.days[d] EXCEPT !.hourly_data = SortByKey(@, "hour")]

\* C28: merging the events then the readings in two runs, the readings then
\* the events in two runs, and both in one run, yield the same days map.
C28_MergeOrderIndependent ==
    orders.done => /\ orders.email_first = orders.together
                   /\ orders.sla_first = orders.together

\* both batches have rows of a date the store holds, and were merged in the
\* three orders
C28_Witness ==
    /\ orders.done
    /\ \E d \in DOMAIN disk.db.days :
          /\ \E i \in DOMAIN ingest.events.rows :
                /\ ingest.events.rows[i].type = "Inbox"
                /\ DateOf(ingest.events.rows[i].ts) = d
          /\ \E i \in DOMAIN ingest.unread.rows : ingest.unread.rows[i].date = d
    /\ orders.together # disk.db.days

---------------------------------------------------------------------------
(* Properties of a run of IntelligentIngester: the order of backup, save     *)
(* and move (Spec)                                                           *)

\* the run is at or past the opening of the store file for writing
StoreOverwritten == prog = "II" /\ runs > 0 /\ pc \in {"writing", "saved", "done", "failed"}

\* a copy of the store file was written in this run
BackedUpThisRun ==
    \E b \in backups : b.run = runs /\ b.name \in {"email_database", "email_database_corrupted"}

\* the input files leave the ingest folder only once the merged store is saved
MovedAfterSave ==
    prog = "II" =>
        /\ pc = "done" => ingest = NoBatch /\ disk = Store("ok", hist.post)
        /\ pc \in {"checked", "backed", "loaded", "merged", "writing", "saved",
                   "failed", "crashed"} =>
              ingest.events.present \/ ingest.unread.present

\* a failed save_database leaves the input files where they were
InputsKeptOnFailedSave ==
    prog = "II" /\ pc = "failed" => hist.why = "write_error" /\ ingest = hist.batch

\* C30: in IntelligentIngester.run the input files are moved only after the
\* merged store was saved; if save_database fails the run fails and the input
\* files are still in the ingest folder; and whenever the store file is
\* overwritten, a backup of the previous store was taken earlier in the run.
C30_BackupBeforeOverwrite ==
    /\ MovedAfterSave
    /\ InputsKeptOnFailedSave
    /\ StoreOverwritten /\ hist.found # "absent" => BackedUpThisRun

\* the same with room in the backup folder
BackupWhenWritable ==
    StoreOverwritten /\ hist.found # "absent" /\ backup_dir = "writable" => BackedUpThisRun

---------------------------------------------------------------------------
(* Properties of the 2-hour blocks, daily (SpecDash) and weekly (SpecWeek)   *)

\* the emails the entries of hourly_data hold for the hours of S
EmailsOfHours(hourly_data, S) ==
    SumOver({i \in 1 .. Len(hourly_data) : hourly_data[i].hour \in S},
            [i \in 1 .. Len(hourly_data) |->
                OrZero(Get(hourly_data[i], "emails_received", Null))])

\* the blocks that span the hour, by position
BlocksWith(blocks, h) ==
    {k \in 1 .. Len(blocks) : blocks[k].start_hour <= h /\ h < blocks[k].end_hour}

\* C29: the 2-hour blocks partition the configured business hours, an odd
\* number of hours included: every hour h with start_hour <= h < end_hour is
\* aggregated into exactly one block, and no hour outside that range is
\* aggregated into any block.
C29_BlocksPartitionBusinessHours ==
    IntervalsDone =>
        LET blocks == dash.two_hour_metrics
        IN  /\ \A h \in Hours :
                  Cardinality(BlocksWith(blocks, h))
                     = IF cfg.start_hour <= h /\ h < cfg.end_hour THEN 1 ELSE 0
            /\ \A k \in 1 .. Len(blocks) :
                  blocks[k].emails =
                     EmailsOfHours(dash.day.hourly_data,
                                   blocks[k].start_hour .. (blocks[k].end_hour - 1))

\* what does hold of the daily blocks: each aggregates the two hours from
\* its start
DailyBlocksTakeTwoHours ==
    IntervalsDone =>
        \A k \in 1 .. Len(dash.two_hour_metrics) :
            dash.two_hour_metrics[k].emails =
                EmailsOfHours(dash.day.hourly_data,
                              {dash.two_hour_metrics[k].start_hour,
                               dash.two_hour_metrics[k].start_hour + 1})

\* the weekly blocks do partition the configured hours
WeeklyBlocksPartition ==
    pc = "blocks" =>
        LET blocks == week.two_hour_metrics_week
            Range(k) == {h \in Hours : /\ blocks[k].start_hour <= h
                                       /\ h < blocks[k].start_hour + 2
                                       /\ h < cfg.end_hour}
        IN  /\ \A h \in Hours :
                  Cardinality({k \in 1 .. Len(blocks) : h \in Range(k)})
                     = IF cfg.start_hour <= h /\ h < cfg.end_hour THEN 1 ELSE 0
            /\ \A k \in 1 .. Len(blocks) :
                  blocks[k].emails =
                     SumOver(DOMAIN week.days,
                             [d \in DOMAIN week.days |->
                                 EmailsOfHours(week.days[d].hourly_data, Range(k))])

===========================================================================
